---------------------------- MODULE Spec2Model ----------------------------
(***************************************************************************)
(* A state-machine model of the in-memory domain stores of server.js:      *)
(* MarketplaceManager, PaymentProcessor, SubscriptionManager,              *)
(* UserAcquisitionManager, RevenueManager, JobBoardManager,                *)
(* BlackMarketManager, CargoManager and SmugglingManager, of the purchase  *)
(* and subscription routes, of the 4-hourly commercial update and of       *)
(* CommercialPlatform.initialize with the loaders of the lore.             *)
(*                                                                         *)
(* Conventions                                                             *)
(*  - uuidv4() identifiers are modelled as the naturals 1, 2, 3, ... in    *)
(*    order of allocation; a store that never deletes allocates            *)
(*    Cardinality(DOMAIN store) + 1.                                       *)
(*  - Money is counted in integer cents (4.99 is 499), so sums are exact;  *)
(*    the rounding of IEEE doubles is outside the model.                   *)
(*  - A JavaScript value that may be a number, undefined or NaN is a       *)
(*    record [t, v]: Num(n), Undefined, NaN.  JsAdd is the + of numbers.   *)
(*  - Every operation records its outcome in ret: the operation, the id it *)
(*    was called with, and the message of the Error it threw ("" when it   *)
(*    returned normally).                                                  *)
(*  - Fields the operations only copy (buyerId, sellerId, paymentMethod,   *)
(*    names, descriptions, timestamps of creation) are left out.           *)
(*  - Init is the server once initialize() has run with no lore provider:  *)
(*    the built-in catalogs are loaded.  InitConstructed is the state      *)
(*    before initialize(), from which SpecInit runs the loaders against    *)
(*    every outcome of the provider.                                       *)
(***************************************************************************)
EXTENDS Integers, Sequences, FiniteSets, TLC

VARIABLES
    listings,        \* MarketplaceManager.listings : id -> listing
    transactions,    \* MarketplaceManager.transactions
    payments,        \* PaymentProcessor.transactions, the payment ledger
    timers,          \* processPayment calls suspended in the processing delay
    calls,           \* number of processPayment calls made so far
    subscriptions,   \* SubscriptionManager.subscriptions : id -> subscription
    streams,         \* RevenueManager.streams : stream name -> total
    now,             \* Date.now(), in hours since the server started
    jobs,            \* JobBoardManager.jobs : id -> job
    jobsCreated,     \* number of jobs created so far (the next uuid)
    completedJobs,   \* JobBoardManager.completedJobs, as job ids
    jobStats,        \* JobBoardManager.jobStats
    bmListings,      \* BlackMarketManager.listings : id -> listing
    bmTransactions,  \* BlackMarketManager.transactions
    marketStats,     \* BlackMarketManager.marketStats
    priceUpdates,    \* number of updateMarketPrices runs so far
    cargoPc,         \* generateCargoManifest: "idle", or "loop" inside a call
    availableCargo,  \* generateCargoManifest: the draw pool, cargo type ids
    remainingCapacity, \* generateCargoManifest: the capacity left
    manifest,        \* generateCargoManifest: the manifest built or returned
    cargoStats,      \* CargoManager.cargoStats
    manifestsGenerated, \* CargoManager.cargoManifests.size
    activeRuns,      \* SmugglingManager.activeRuns : id -> run
    completedRuns,   \* SmugglingManager.completedRuns
    smugglingStats,  \* SmugglingManager.smugglingStats
    runTimers,       \* run ids whose completion timeout is pending
    runsLeft,        \* smuggling runs the model may still start
    completionLog,   \* history: every run completed so far, in order
    campaigns,       \* UserAcquisitionManager.campaigns : id -> campaign
    initPc,          \* CommercialPlatform.initialize: the step it is before
    loreIntegration, \* CommercialPlatform.loreIntegration: "null", "configured"
    smugglingLore,   \* SmugglingManager.smugglingLore
    cargoCatalog,    \* CargoManager.cargoTypes: its entries in insertion order
    jobTemplates,    \* JobBoardManager.jobTemplates
    loreLog,         \* history: what the lore provider answered each loader
    ret              \* outcome of the last operation

marketVars == <<listings, transactions>>
paymentVars == <<payments, timers, calls>>
jobVars == <<jobs, jobsCreated, completedJobs, jobStats>>
bmVars == <<bmListings, bmTransactions, marketStats, priceUpdates>>
cargoVars == <<cargoPc, availableCargo, remainingCapacity, manifest,
               cargoStats, manifestsGenerated>>
smugglingVars == <<activeRuns, completedRuns, smugglingStats, runTimers,
                   runsLeft, completionLog>>
initVars == <<initPc, loreIntegration, smugglingLore, cargoCatalog,
              jobTemplates, loreLog>>

vars == <<listings, transactions, payments, timers, calls, subscriptions,
          streams, now, jobs, jobsCreated, completedJobs, jobStats,
          bmListings, bmTransactions, marketStats, priceUpdates, cargoPc,
          availableCargo, remainingCapacity, manifest, cargoStats,
          manifestsGenerated, activeRuns, completedRuns, smugglingStats,
          runTimers, runsLeft, completionLog, campaigns, initPc,
          loreIntegration, smugglingLore, cargoCatalog, jobTemplates,
          loreLog, ret>>

\* What the operations of one store leave alone: the other stores
exceptMarket ==
    <<paymentVars, subscriptions, streams, now, jobVars, bmVars,
      cargoVars, smugglingVars, campaigns, initVars>>
exceptPayments ==
    <<marketVars, subscriptions, streams, now, jobVars, bmVars,
      cargoVars, smugglingVars, campaigns, initVars>>
exceptSubscriptions ==
    <<marketVars, paymentVars, streams, now, jobVars, bmVars,
      cargoVars, smugglingVars, campaigns, initVars>>
exceptRevenue ==
    <<marketVars, paymentVars, subscriptions, now, jobVars, bmVars,
      cargoVars, smugglingVars, campaigns, initVars>>
exceptJobs ==
    <<marketVars, paymentVars, subscriptions, streams, now, bmVars,
      cargoVars, smugglingVars, campaigns, initVars>>
exceptBlackMarket ==
    <<marketVars, paymentVars, subscriptions, streams, now, jobVars,
      cargoVars, smugglingVars, campaigns, initVars>>
exceptCargo ==
    <<marketVars, paymentVars, subscriptions, streams, now, jobVars, bmVars,
      smugglingVars, campaigns, initVars>>
exceptSmuggling ==
    <<marketVars, paymentVars, subscriptions, streams, now, jobVars, bmVars,
      cargoVars, campaigns, initVars>>
exceptAcquisition ==
    <<marketVars, paymentVars, subscriptions, streams, now, jobVars, bmVars,
      cargoVars, smugglingVars, initVars>>
exceptPlatform ==
    <<now, jobVars, bmVars, cargoVars, smugglingVars, campaigns, initVars>>
exceptInit ==
    <<marketVars, paymentVars, subscriptions, streams, now, jobVars, bmVars,
      cargoVars, smugglingVars, campaigns>>
exceptClock ==
    <<marketVars, paymentVars, subscriptions, streams, jobVars, bmVars,
      cargoVars, smugglingVars, campaigns, initVars>>

--------------------------------------------------------------------------
(* Bounds of the model *)

MaxListings == 2      \* marketplace listings created with a fresh id
MaxTx == 2            \* marketplace transactions recorded
MaxCalls == 3         \* processPayment calls
MaxSubs == 2          \* subscriptions created
MaxStreamTotal == 2   \* total of one revenue stream
MaxTicks == 1         \* observations of the clock after the start
MaxJobs == 3          \* jobs created
MaxBmListings == 1    \* black-market listings created
MaxBmTx == 2          \* black-market transactions recorded
MaxPriceUpdates == 1  \* runs of updateMarketPrices
MaxManifests == 1     \* cargo manifests generated
MaxRuns == 3          \* smuggling runs started after the initial state
HistoryStart == 99    \* runs already completed where SpecSmugglingHistory starts
MaxCampaigns == 1     \* acquisition campaigns created with a fresh id
MaxEvents == 2        \* acquisition events counted by one campaign

--------------------------------------------------------------------------
(* JavaScript values *)

Num(n) == [t |-> "num", v |-> n]
Undefined == [t |-> "undefined", v |-> 0]
NaN == [t |-> "NaN", v |-> 0]

\* a + b for operands that are numbers, undefined or NaN
JsAdd(a, b) == IF a.t = "num" /\ b.t = "num" THEN Num(a.v + b.v) ELSE NaN

\* a * b for operands that are numbers, undefined or NaN
JsMul(a, b) == IF a.t = "num" /\ b.t = "num" THEN Num(a.v * b.v) ELSE NaN

\* Property names every object literal inherits from Object.prototype: obj[k]
\* is a function (truthy) for these keys although k is no own key of obj.
ObjectPrototypeKeys == {"constructor", "toString"}

\* The outcome of an operation: op, the identifier or number (id) and the
\* name (key: a plan, a revenue stream) it was called with or returned, and
\* the message of the Error it threw
Ret(op, id, key, err) == [op |-> op, id |-> id, key |-> key, err |-> err]
Ok(op, id) == Ret(op, id, "", "")
Threw(op, id, msg) == Ret(op, id, "", msg)

RECURSIVE SumOver(_, _)
\* sum of f[x] over the finite set S
SumOver(f, S) ==
    IF S = {} THEN 0
    ELSE LET x == CHOOSE y \in S : TRUE IN f[x] + SumOver(f, S \ {x})


RECURSIVE InsertDesc(_, _, _)
\* x placed in the descending sequence s after the elements whose key is not
\* smaller than its own, before the equal ones that followed it in the input
InsertDesc(x, s, key) ==
    IF s = <<>> THEN <<x>>
    ELSE IF key[Head(s)] > key[x] THEN <<Head(s)>> \o InsertDesc(x, Tail(s), key)
    ELSE <<x>> \o s

RECURSIVE StableSortDesc(_, _)
\* Array.prototype.sort((a, b) => key[b] - key[a]): descending, stable
StableSortDesc(s, key) ==
    IF s = <<>> THEN <<>>
    ELSE InsertDesc(Head(s), StableSortDesc(Tail(s), key), key)

\* Array.prototype.slice(0, n)
Slice0(s, n) == SubSeq(s, 1, IF Len(s) < n THEN Len(s) ELSE n)

--------------------------------------------------------------------------
(* MarketplaceManager *)

\* this.categories: basePrice in cents, royalty in percent
categories ==
    [cosmetics |-> [basePrice |-> 499, royalty |-> 30],
     equipment |-> [basePrice |-> 999, royalty |-> 25],
     boosts |-> [basePrice |-> 299, royalty |-> 40],
     bundles |-> [basePrice |-> 1999, royalty |-> 20],
     premium |-> [basePrice |-> 4999, royalty |-> 15]]

Categories == DOMAIN categories

NoId == 0

\* The category and (numeric, in cents) price createListing is called with:
\* two categories of the table, two prices within one category, and a
\* category that is no key of the table.
ListingBodies ==
    {[category |-> "cosmetics", price |-> 499],
     [category |-> "cosmetics", price |-> 999],
     [category |-> "equipment", price |-> 999],
     [category |-> "weapons", price |-> 499]}

\* The request bodies of POST /api/marketplace/listings: a body may carry an
\* id, which the spread in createListing copies over the generated one; the
\* case that matters is an id equal to that of a listing in the store.
ListingData ==
    {[id |-> i, category |-> b.category, price |-> b.price] :
        i \in {NoId} \cup DOMAIN listings, b \in ListingBodies}

\* this.categories[c].royalty: the rate of an own key, undefined for a key
\* inherited from Object.prototype; for any other c, this.categories[c] is
\* undefined and reading .royalty of it throws a TypeError.
RoyaltyRate(c) ==
    IF c \in Categories THEN Num(categories[c].royalty) ELSE Undefined

CategoryIsDefined(c) == c \in Categories \cup ObjectPrototypeKeys

\* The listing createListing builds, without its id
NewListing(listingData) ==
    [category |-> listingData.category,
     price |-> listingData.price,
     status |-> "active",
     views |-> 0,
     purchases |-> 0,
     revenue |-> 0]

\* createListing(listingData): { id: uuidv4(), ...listingData, status, views,
\* purchases, revenue }; this.listings.set(listing.id, listing)
createListing(listingData) ==
    LET fresh == Cardinality(DOMAIN listings) + 1
        id == IF listingData.id = NoId THEN fresh ELSE listingData.id
        listing == NewListing(listingData)
    IN /\ listingData.id = NoId => fresh <= MaxListings
       /\ listings' = [x \in DOMAIN listings \cup {id} |->
                          IF x = id THEN listing ELSE listings[x]]
       /\ ret' = Ok("createListing", id)
       /\ UNCHANGED <<transactions, exceptMarket>>

\* MarketTransaction recording the purchase as still to be paid
MarketTransaction_Pending(listingId, l) ==
    [listingId |-> listingId,
     amount |-> l.price,
     status |-> "pending",
     royalty |-> JsMul(Num(l.price), RoyaltyRate(l.category))]

\* The transaction purchaseListing builds for listing l
MarketTransaction(listingId, l) ==
    [listingId |-> listingId,
     amount |-> l.price,
     status |-> "completed",
     royalty |-> JsMul(Num(l.price), RoyaltyRate(l.category))]

\* The listing after listing.purchases++; listing.revenue += amount
PurchasedListing(l, amount) ==
    [l EXCEPT !.purchases = @ + 1, !.revenue = @ + amount]

\* purchaseListing(listingId, buyerId, paymentMethod)
purchaseListing(listingId) ==
    IF listingId \notin DOMAIN listings
    THEN /\ ret' = Threw("purchaseListing", listingId, "Listing not found")
         /\ UNCHANGED <<listings, transactions, exceptMarket>>
    ELSE IF ~CategoryIsDefined(listings[listingId].category)
    THEN \* this.categories[listing.category] is undefined
         /\ ret' = Threw("purchaseListing", listingId, "TypeError")
         /\ UNCHANGED <<listings, transactions, exceptMarket>>
    ELSE LET t == MarketTransaction(listingId, listings[listingId])
         IN /\ Len(transactions) < MaxTx
            /\ transactions' = Append(transactions, t)
            /\ listings' = [listings EXCEPT
                              ![listingId] = PurchasedListing(@, t.amount)]
            /\ ret' = Ok("purchaseListing", listingId)
            /\ UNCHANGED exceptMarket

RECURSIVE SumAmounts(_)
\* ts.reduce((sum, t) => sum + t.amount, 0)
SumAmounts(ts) ==
    IF ts = <<>> THEN 0
    ELSE SumAmounts(SubSeq(ts, 1, Len(ts) - 1)) + ts[Len(ts)].amount

\* Array.from(this.listings.values()): a Map iterates in insertion order,
\* which for ids allocated 1, 2, ... is the order of the ids
ListingValues == [i \in 1..Cardinality(DOMAIN listings) |-> i]

\* CategoryTransactions without the test of the category
CategoryTransactions_AnyCategory(category) ==
    LET Test(t) == t.listingId \in DOMAIN listings
    IN SelectSeq(transactions, Test)

\* this.transactions.filter(t => { const listing = this.listings.get(
\* t.listingId); return listing && listing.category === category; })
CategoryTransactions(category) ==
    LET Test(t) == /\ t.listingId \in DOMAIN listings
                   /\ listings[t.listingId].category = category
    IN SelectSeq(transactions, Test)

\* categoryStats[category] of getMarketAnalytics; averagePrice is kept as the
\* exact fraction num/den
CategoryStat(category) ==
    LET categoryListings ==
            {id \in DOMAIN listings : listings[id].category = category}
        categoryTransactions == CategoryTransactions(category)
        n == Cardinality(categoryListings)
    IN [listings |-> n,
        transactions |-> Len(categoryTransactions),
        revenue |-> SumAmounts(categoryTransactions),
        averagePrice |->
            IF n > 0
            THEN [num |-> SumOver([id \in categoryListings |->
                                      listings[id].price], categoryListings),
                  den |-> n]
            ELSE [num |-> 0, den |-> 1]]

TopListingsCount == 10

\* getMarketAnalytics()
getMarketAnalytics ==
    [totalRevenue |-> SumAmounts(transactions),
     totalTransactions |-> Len(transactions),
     categoryStats |-> [c \in Categories |-> CategoryStat(c)],
     topListings |->
        Slice0(StableSortDesc(ListingValues,
                              [id \in DOMAIN listings |->
                                  listings[id].purchases]),
               TopListingsCount)]

CreateListing == \E d \in ListingData : createListing(d)

PurchaseListing == \E id \in 1..MaxListings : purchaseListing(id)

--------------------------------------------------------------------------
(* PaymentProcessor *)

\* The paymentData processPayment is called with.  It is spread into the
\* transaction after id and status, so an id or a status it carries replaces
\* the generated id and 'processing'; an id that matters is one equal to the
\* id of an earlier transaction, here the first.  "" stands for a field
\* paymentData lacks.
PaymentData ==
    {[id |-> NoId, status |-> ""], [id |-> 1, status |-> ""],
     [id |-> NoId, status |-> "refunded"]}

\* The calls of processPayment: an amount in cents and a paymentData
PaymentCalls ==
    {[amount |-> 499, paymentData |-> d] : d \in PaymentData}
    \cup {[amount |-> 999, paymentData |-> [id |-> NoId, status |-> ""]]}

NoRefund == [present |-> FALSE, amount |-> 0, status |-> ""]

\* The transaction object call number c of processPayment builds:
\* { id: uuidv4(), amount, ..., status: 'processing', ...paymentData }
PaymentTransaction(c, amount, paymentData) ==
    [call |-> c,
     id |-> IF paymentData.id = NoId THEN c ELSE paymentData.id,
     amount |-> amount,
     status |-> IF paymentData.status = "" THEN "processing"
                ELSE paymentData.status,
     refund |-> NoRefund]

\* processPayment up to its await: the transaction object is built and the
\* call is suspended on setTimeout(resolve, 1000).  call numbers the
\* invocation; uuidv4() is modelled by the same number.
StartPayment(amount, paymentData) ==
    LET c == calls + 1
        transaction == PaymentTransaction(c, amount, paymentData)
    IN /\ calls < MaxCalls
       /\ calls' = c
       /\ timers' = Append(timers, transaction)
       /\ ret' = Ok("await processPayment", c)
       /\ UNCHANGED <<payments, exceptPayments>>

\* SettledRecord without the assignment of a failed payment's status
SettledRecord_FailedKeepsStatus(transaction, success) ==
    IF success THEN [transaction EXCEPT !.status = "completed"]
    ELSE transaction

\* transaction.status = Math.random() > 0.05 ? 'completed' : 'failed'
SettledRecord(transaction, success) ==
    [transaction EXCEPT !.status = IF success THEN "completed" ELSE "failed"]

\* processPayment after its await.  Timers of equal delay fire in the order
\* they were set, so the call resumed is the oldest suspended one.
SettlePayment ==
    /\ timers # << >>
    /\ \E success \in BOOLEAN :
          payments' = Append(payments, SettledRecord(Head(timers), success))
    /\ timers' = Tail(timers)
    /\ ret' = Ok("processPayment", Head(timers).call)
    /\ UNCHANGED <<calls, exceptPayments>>

\* FindTransaction falling back to the latest record when no id matches
FindTransaction_OrLatest(transactionId) ==
    LET hits == {i \in 1..Len(payments) : payments[i].id = transactionId}
    IN IF hits = {} THEN Len(payments)
       ELSE CHOOSE i \in hits : \A j \in hits : i <= j

\* this.transactions.find(t => t.id === transactionId): the index of the
\* first record with that id, 0 when there is none
FindTransaction(transactionId) ==
    LET hits == {i \in 1..Len(payments) : payments[i].id = transactionId}
    IN IF hits = {} THEN 0
       ELSE CHOOSE i \in hits : \A j \in hits : i <= j

\* refundTransaction(transactionId, reason)
refundTransaction(transactionId) ==
    LET i == FindTransaction(transactionId)
    IN IF i = 0
       THEN /\ ret' = Threw("refundTransaction", transactionId,
                            "Transaction not found")
            /\ UNCHANGED <<paymentVars, exceptPayments>>
       ELSE /\ payments' = [payments EXCEPT ![i].refund =
                               [present |-> TRUE,
                                amount |-> payments[i].amount,
                                status |-> "completed"]]
            /\ ret' = Ok("refundTransaction", transactionId)
            /\ UNCHANGED <<timers, calls, exceptPayments>>

ProcessPayment ==
    \E c \in PaymentCalls : StartPayment(c.amount, c.paymentData)

RefundTransaction == \E id \in 1..(MaxCalls + 1) : refundTransaction(id)

--------------------------------------------------------------------------
(* SubscriptionManager *)

\* this.plans, prices in cents
plans ==
    [basic |-> [price |-> 499, period |-> "monthly"],
     premium |-> [price |-> 999, period |-> "monthly"],
     vip |-> [price |-> 1999, period |-> "monthly"],
     lifetime |-> [price |-> 9999, period |-> "lifetime"]]

Plans == DOMAIN plans

\* The planId values createSubscription is called with: the four plans, a
\* name that is no key of this.plans, and one this.plans inherits from
\* Object.prototype.
PlanInputs == Plans \cup {"gold", "constructor"}

\* !plan, for plan = this.plans[planId]: an inherited property is a function,
\* which is truthy
PlanIsFalsy(planId) == planId \notin Plans \cup ObjectPrototypeKeys

\* plan.price: undefined when plan is an inherited function
PlanPrice(planId) ==
    IF planId \in Plans THEN Num(plans[planId].price) ELSE Undefined

\* The subscription createSubscription builds, without its id
NewSubscription(planId) ==
    [planId |-> planId,
     status |-> "active",
     cancelledAt |-> "unset",
     revenue |-> PlanPrice(planId)]

\* createSubscription(userId, planId, paymentMethod)
createSubscription(planId) ==
    IF PlanIsFalsy(planId)
    THEN /\ ret' = Ret("createSubscription", NoId, planId, "Invalid plan")
         /\ UNCHANGED <<subscriptions, exceptSubscriptions>>
    ELSE LET id == Cardinality(DOMAIN subscriptions) + 1
             subscription == NewSubscription(planId)
         IN /\ id <= MaxSubs
            /\ subscriptions' =
                  [x \in DOMAIN subscriptions \cup {id} |->
                      IF x = id THEN subscription ELSE subscriptions[x]]
            /\ ret' = Ret("createSubscription", id, planId, "")
            /\ UNCHANGED exceptSubscriptions

\* CancelledSubscription toggling the status instead of setting it
CancelledSubscription_Toggle(s) ==
    [s EXCEPT !.status = IF @ = "active" THEN "cancelled" ELSE "active",
              !.cancelledAt = "set"]

\* subscription.status = 'cancelled'; subscription.cancelledAt = new Date()
CancelledSubscription(s) ==
    [s EXCEPT !.status = "cancelled", !.cancelledAt = "set"]

\* cancelSubscription(subscriptionId)
cancelSubscription(subscriptionId) ==
    IF subscriptionId \notin DOMAIN subscriptions
    THEN /\ ret' = Threw("cancelSubscription", subscriptionId,
                         "Subscription not found")
         /\ UNCHANGED <<subscriptions, exceptSubscriptions>>
    ELSE /\ subscriptions' =
               [subscriptions EXCEPT
                   ![subscriptionId] = CancelledSubscription(@)]
         /\ ret' = Ok("cancelSubscription", subscriptionId)
         /\ UNCHANGED exceptSubscriptions

RECURSIVE SumRevenue(_)
\* S.reduce((sum, s) => sum + s.revenue, 0) over the subscriptions S
SumRevenue(S) ==
    IF S = {} THEN Num(0)
    ELSE LET x == CHOOSE y \in S : TRUE
         IN JsAdd(SumRevenue(S \ {x}), subscriptions[x].revenue)

\* Array.from(this.subscriptions.values()).filter(s => s.status === 'active')
ActiveSubscriptions ==
    {id \in DOMAIN subscriptions : subscriptions[id].status = "active"}

\* getSubscriptionAnalytics(); churnRate in percent, averageRevenuePerUser
\* kept as the fraction num/den
getSubscriptionAnalytics ==
    LET activeSubscriptions == ActiveSubscriptions
        n == Cardinality(activeSubscriptions)
    IN [totalActive |-> n,
        totalRevenue |-> SumRevenue(activeSubscriptions),
        revenueByPlan |->
            [p \in Plans |->
                SumRevenue({s \in activeSubscriptions :
                               subscriptions[s].planId = p})],
        churnRate |-> 5,
        averageRevenuePerUser |->
            IF n > 0
            THEN [num |-> SumRevenue(activeSubscriptions), den |-> n]
            ELSE [num |-> Num(0), den |-> 1]]

CreateSubscription == \E p \in PlanInputs : createSubscription(p)

CancelSubscription == \E id \in 1..(MaxSubs + 1) : cancelSubscription(id)

--------------------------------------------------------------------------
(* UserAcquisitionManager *)

\* Object.keys(this.channels), in the order of the object literal
channels ==
    <<"social_media", "google_ads", "influencers", "content_marketing",
      "referrals", "partnerships">>

Channels == {channels[i] : i \in 1..Len(channels)}

\* The campaignData createCampaign is called with: the request body, whose
\* id, when it has one, replaces the generated id; "tiktok" is a channel
\* outside the table.  budget, which the claims do not involve, is left out.
CampaignData ==
    [id : {NoId, 1}, channel : {"referrals", "tiktok"}]

\* createCampaign(campaignData)
createCampaign(campaignData) ==
    LET id == IF campaignData.id = NoId
              THEN Cardinality(DOMAIN campaigns) + 1
              ELSE campaignData.id
        campaign ==
            [channel |-> campaignData.channel,
             status |-> "active",
             metrics |-> [impressions |-> 0, clicks |-> 0, conversions |-> 0,
                          cost |-> 0]]
    IN /\ id <= MaxCampaigns
       /\ campaigns' = [c \in DOMAIN campaigns \cup {id} |->
                           IF c = id THEN campaign ELSE campaigns[c]]
       /\ ret' = Ok("createCampaign", id)
       /\ UNCHANGED exceptAcquisition

\* The eventType and the data of the tracking route's request body
EventTypes == {"impression", "click", "conversion", "purchase"}

\* no data at all, data without a cost, and data with a cost in cents
NoData == [present |-> FALSE, cost |-> Undefined]
EventData ==
    {NoData, [present |-> TRUE, cost |-> Undefined],
     [present |-> TRUE, cost |-> Num(250)]}

\* data.cost || 0, for a data that is an object
CostOrZero(data) == IF data.cost.t = "num" THEN data.cost.v ELSE 0

\* trackAcquisitionEvent(campaignId, eventType, data).  A conversion reads
\* data.cost after it has counted the conversion: without data the read
\* throws a TypeError.
trackAcquisitionEvent(campaignId, eventType, data) ==
    IF campaignId \notin DOMAIN campaigns
    THEN /\ ret' = Ret("trackAcquisitionEvent", campaignId, eventType, "")
         /\ UNCHANGED <<campaigns, exceptAcquisition>>
    ELSE LET m == campaigns[campaignId].metrics
         IN /\ m.impressions + m.clicks + m.conversions < MaxEvents
            /\ campaigns' =
                  [campaigns EXCEPT ![campaignId].metrics =
                      CASE eventType = "impression" ->
                              [m EXCEPT !.impressions = @ + 1]
                        [] eventType = "click" -> [m EXCEPT !.clicks = @ + 1]
                        [] eventType = "conversion" /\ data.present ->
                              [m EXCEPT !.conversions = @ + 1,
                                        !.cost = @ + CostOrZero(data)]
                        [] eventType = "conversion" /\ ~data.present ->
                              [m EXCEPT !.conversions = @ + 1]
                        [] OTHER -> m]
            /\ ret' = Ret("trackAcquisitionEvent", campaignId, eventType,
                          IF eventType = "conversion" /\ ~data.present
                          THEN "TypeError" ELSE "")
            /\ UNCHANGED exceptAcquisition

\* channelPerformance[channel].totalConversions
TotalConversions(channel) ==
    LET of == {c \in DOMAIN campaigns : campaigns[c].channel = channel}
    IN SumOver([c \in of |-> campaigns[c].metrics.conversions], of)

\* Object.entries(channelPerformance).sort(([,a], [,b]) =>
\*     b.totalConversions - a.totalConversions)[0]?.[0]
bestPerformingChannel ==
    LET sorted == StableSortDesc(channels,
                                 [c \in Channels |-> TotalConversions(c)])
    IN IF sorted = << >> THEN "undefined" ELSE sorted[1]

\* getAcquisitionAnalytics(), without the budget and cost rollups
getAcquisitionAnalytics ==
    [totalCampaigns |-> Cardinality(DOMAIN campaigns),
     totalConversions |->
         SumOver([c \in DOMAIN campaigns |->
                     campaigns[c].metrics.conversions], DOMAIN campaigns),
     channelPerformance |->
         [c \in Channels |-> [totalConversions |-> TotalConversions(c)]],
     bestPerformingChannel |-> bestPerformingChannel]

CreateCampaign == \E d \in CampaignData : createCampaign(d)

TrackAcquisitionEvent ==
    \E id \in 1..(MaxCampaigns + 1), e \in EventTypes, d \in EventData :
        trackAcquisitionEvent(id, e, d)

--------------------------------------------------------------------------
(* RevenueManager *)

\* the keys of this.streams after construction
Streams == {"subscriptions", "marketplace", "ads", "partnerships", "merchandise"}

\* The stream names updateRevenue is called with: the five streams and a name
\* that is no key of this.streams
StreamInputs == Streams \cup {"gems"}

\* The amounts updateRevenue is called with
RevenueAmounts == {1, 2}

\* this.streams[stream]: undefined for a name that is no key
StreamValue(stream) ==
    IF stream \in DOMAIN streams THEN streams[stream] ELSE Undefined

\* updateRevenue(stream, amount): this.streams[stream] += amount
updateRevenue(stream, amount) ==
    LET total == JsAdd(StreamValue(stream), Num(amount))
    IN /\ total.t = "num" => total.v <= MaxStreamTotal
       /\ streams' = [k \in DOMAIN streams \cup {stream} |->
                         IF k = stream THEN total ELSE streams[k]]
       /\ ret' = Ret("updateRevenue", amount, stream, "")
       /\ UNCHANGED exceptRevenue

\* getHistoricalRevenue(): the fixed series
getHistoricalRevenue == <<35000, 42000, 48000, 52000, 58000>>

Abs(n) == IF n < 0 THEN 0 - n ELSE n

RECURSIVE Gcd(_, _)
\* greatest common divisor of two naturals, not both 0
Gcd(a, b) == IF b = 0 THEN a ELSE Gcd(b, a % b)

\* A quotient of the regression, the number n / d for d # 0, kept as a
\* numerator over a positive denominator in lowest terms
Ratio(n, d) ==
    LET g == Gcd(Abs(n), Abs(d))
        s == IF d < 0 THEN 0 - 1 ELSE 1
    IN [t |-> "ratio", n |-> (s * n) \div g, d |-> Abs(d) \div g]
Null == [t |-> "null", n |-> 0, d |-> 1]

RatAdd(a, b) == Ratio(a.n * b.d + b.n * a.d, a.d * b.d)
RatSub(a, b) == Ratio(a.n * b.d - b.n * a.d, a.d * b.d)
RatMul(a, b) == Ratio(a.n * b.n, a.d * b.d)
RatDiv(a, b) == Ratio(a.n * b.d, a.d * b.n)
RatEquals(a, k) == a.t = "ratio" /\ a.n = k * a.d

\* Math.max(0, x)
MaxWithZero(x) == IF x.n < 0 THEN Ratio(0, 1) ELSE x

\* the sums of the regression over the indices i = 0 .. n-1 of the series
SumX(h) == SumOver([i \in 1..Len(h) |-> i - 1], 1..Len(h))
SumY(h) == SumOver(h, 1..Len(h))
SumXY(h) == SumOver([i \in 1..Len(h) |-> h[i] * (i - 1)], 1..Len(h))
SumXX(h) == SumOver([i \in 1..Len(h) |-> (i - 1) * (i - 1)], 1..Len(h))

\* slope = (n * sumXY - sumX * sumY) / (n * sumXX - sumX * sumX)
Slope(h) ==
    Ratio(Len(h) * SumXY(h) - SumX(h) * SumY(h),
          Len(h) * SumXX(h) - SumX(h) * SumX(h))

\* intercept = (sumY - slope * sumX) / n
Intercept(h) ==
    RatDiv(RatSub(Ratio(SumY(h), 1), RatMul(Slope(h), Ratio(SumX(h), 1))),
           Ratio(Len(h), 1))

\* const nextPeriod = n, taken one short
NextPeriod_Last(h) == Len(h) - 1

\* const nextPeriod = n
NextPeriod(h) == Len(h)

\* predictRevenue(period): null for a series shorter than 3, otherwise
\* Math.max(0, slope * nextPeriod + intercept); period is not read
predictRevenue(period) ==
    LET historicalData == getHistoricalRevenue
    IN IF Len(historicalData) < 3 THEN Null
       ELSE MaxWithZero(RatAdd(RatMul(Slope(historicalData),
                                      Ratio(NextPeriod(historicalData), 1)),
                               Intercept(historicalData)))

\* The periods predictRevenue is called with
Periods == {"monthly", "yearly"}

UpdateRevenue ==
    \E s \in StreamInputs, a \in RevenueAmounts : updateRevenue(s, a)

\* A call of predictRevenue: the prediction is returned (ret.id), no store
\* is written
PredictRevenue ==
    \E period \in Periods :
        /\ ret' = Ret("predictRevenue", predictRevenue(period), period, "")
        /\ UNCHANGED <<streams, exceptRevenue>>

--------------------------------------------------------------------------
(* The clock *)

\* Job lifetime: expiresAt = Date.now() + 24 hours
JobTTL == 24

\* Black-market listing lifetime: expiresAt = Date.now() + 4 hours
BlackMarketTTL == 4

\* The clock is observed at instants just over a job lifetime apart, so that
\* what exists at one instant has expired at the next.
ClockStep == JobTTL + 1

NoTime == 0 - 1

AdvanceTime ==
    /\ now + ClockStep <= MaxTicks * ClockStep
    /\ now' = now + ClockStep
    /\ ret' = Ok("advanceTime", now + ClockStep)
    /\ UNCHANGED exceptClock

--------------------------------------------------------------------------
(* JobBoardManager *)

\* getFallbackJobTemplates(): payout in credits, duration in hours
getFallbackJobTemplates ==
    << [type |-> "courier", name |-> "Package Delivery", risk |-> "low",
        payout |-> [min |-> 500, max |-> 2000],
        duration |-> [min |-> 2, max |-> 8]],
       [type |-> "courier", name |-> "Express Courier", risk |-> "medium",
        payout |-> [min |-> 1500, max |-> 4000],
        duration |-> [min |-> 1, max |-> 4]],
       [type |-> "smuggling", name |-> "Contraband Run", risk |-> "high",
        payout |-> [min |-> 5000, max |-> 15000],
        duration |-> [min |-> 6, max |-> 24]],
       [type |-> "smuggling", name |-> "High-Value Contraband",
        risk |-> "extreme",
        payout |-> [min |-> 25000, max |-> 75000],
        duration |-> [min |-> 12, max |-> 48]],
       [type |-> "bounty", name |-> "Wanted Criminal", risk |-> "high",
        payout |-> [min |-> 3000, max |-> 10000],
        duration |-> [min |-> 4, max |-> 16]],
       [type |-> "salvage", name |-> "Derelict Ship Recovery",
        risk |-> "medium",
        payout |-> [min |-> 2000, max |-> 8000],
        duration |-> [min |-> 3, max |-> 12]] >>

\* The templates the random draw of generateRandomJobs selects in the model
\* (indices into this.jobTemplates)
TemplateDraws == {3}

\* generateRandomJobs(count = 3)
JobsPerRun == 3

Players == {"p1", "p2"}

\* createJobFromTemplate(template); calculatePayout and calculateDuration
\* with Math.random() = 0, the lower end of the template's range
createJobFromTemplate(template) ==
    [type |-> template.type,
     name |-> template.name,
     risk |-> template.risk,
     payout |-> template.payout.min,
     duration |-> template.duration.min,
     status |-> "available",
     expiresAt |-> now + JobTTL,
     acceptedBy |-> "",
     acceptedAt |-> NoTime,
     deadline |-> NoTime]

\* generateRandomJobs(): count jobs, each from a template drawn at random,
\* stored under fresh ids
generateRandomJobs(draw) ==
    LET new == (jobsCreated + 1)..(jobsCreated + JobsPerRun)
    IN /\ initPc = "done"    \* startJobGeneration() has set the interval
       /\ \A i \in 1..JobsPerRun : draw[i] \in 1..Len(jobTemplates)
       /\ jobsCreated + JobsPerRun <= MaxJobs
       /\ jobs' = [id \in DOMAIN jobs \cup new |->
                      IF id \in new
                      THEN createJobFromTemplate(
                               jobTemplates[draw[id - jobsCreated]])
                      ELSE jobs[id]]
       /\ jobsCreated' = jobsCreated + JobsPerRun
       /\ ret' = Ok("generateRandomJobs", jobsCreated + JobsPerRun)
       /\ UNCHANGED <<completedJobs, jobStats, exceptJobs>>

\* cleanupExpiredJobs(): deletes the expired jobs that are still available
cleanupExpiredJobs ==
    /\ jobs' = [id \in {j \in DOMAIN jobs :
                           ~(jobs[j].expiresAt < now
                             /\ jobs[j].status = "available")} |-> jobs[id]]
    /\ ret' = Ok("cleanupExpiredJobs", NoId)
    /\ UNCHANGED <<jobsCreated, completedJobs, jobStats, exceptJobs>>

\* AcceptedJob leaving the job available
AcceptedJob_StaysAvailable(job, playerId) ==
    [job EXCEPT !.acceptedBy = playerId,
                !.acceptedAt = now,
                !.deadline = now + job.duration]

\* The job after a successful acceptJob
AcceptedJob(job, playerId) ==
    [job EXCEPT !.status = "active",
                !.acceptedBy = playerId,
                !.acceptedAt = now,
                !.deadline = now + job.duration]

\* acceptJob(jobId, playerId)
acceptJob(jobId, playerId) ==
    IF jobId \notin DOMAIN jobs \/ jobs[jobId].status # "available"
    THEN /\ ret' = Threw("acceptJob", jobId, "Job not available")
         /\ UNCHANGED <<jobVars, exceptJobs>>
    ELSE /\ jobs' = [jobs EXCEPT ![jobId] = AcceptedJob(@, playerId)]
         /\ ret' = Ok("acceptJob", jobId)
         /\ UNCHANGED <<jobsCreated, completedJobs, jobStats, exceptJobs>>

\* completedJobs is cut to its last CompletedJobsKeep entries when it grows
\* beyond CompletedJobsLimit
CompletedJobsLimit == 100
CompletedJobsKeep == 50

\* Array.prototype.slice(-n)
SliceLast(s, n) == IF Len(s) <= n THEN s ELSE SubSeq(s, Len(s) - n + 1, Len(s))

\* JobIsActive without the test of the status
JobIsActive_AnyStatus(jobId) == jobId \in DOMAIN jobs

\* The guard of completeJob: the job exists and its status is 'active'
JobIsActive(jobId) == jobId \in DOMAIN jobs /\ jobs[jobId].status = "active"

\* completeJob(jobId, success = true)
completeJob(jobId, success) ==
    IF ~JobIsActive(jobId)
    THEN /\ ret' = Threw("completeJob", jobId, "Job not active")
         /\ UNCHANGED <<jobVars, exceptJobs>>
    ELSE LET pushed == Append(completedJobs, jobId)
         IN /\ jobs' = [jobs EXCEPT ![jobId].status =
                           IF success THEN "completed" ELSE "failed"]
            /\ completedJobs' = IF Len(pushed) > CompletedJobsLimit
                                THEN SliceLast(pushed, CompletedJobsKeep)
                                ELSE pushed
            /\ jobStats' =
                  IF success
                  THEN [jobStats EXCEPT
                           !.totalJobs = @ + 1,
                           !.completedJobs = @ + 1,
                           !.totalPayout = @ + jobs[jobId].payout]
                  ELSE [jobStats EXCEPT
                           !.totalJobs = @ + 1,
                           !.failedJobs = @ + 1]
            /\ ret' = Ok("completeJob", jobId)
            /\ UNCHANGED <<jobsCreated, exceptJobs>>

GenerateRandomJobs ==
    \E draw \in [1..JobsPerRun -> TemplateDraws] : generateRandomJobs(draw)

\* The job ids of the requests: every id allocated so far and one that is
\* not allocated
JobIdInputs == 1..(jobsCreated + 1)

AcceptJob ==
    \E id \in JobIdInputs, p \in Players : acceptJob(id, p)

CompleteJob ==
    \E id \in JobIdInputs, success \in BOOLEAN : completeJob(id, success)

--------------------------------------------------------------------------
(* BlackMarketManager *)

\* rarityMultiplier and legalityMultiplier of calculateBlackMarketPrice, in
\* tenths
rarityMultiplier ==
    [common |-> 10, uncommon |-> 15, rare |-> 25, legendary |-> 50]

legalityMultiplier == [legal |-> 10, restricted |-> 18, illegal |-> 30]

\* baseRisk of calculateListingRisk
baseRisk == [legal |-> "low", restricted |-> "medium", illegal |-> "high"]

NoItem == [baseValue |-> 0, rarity |-> "", legality |-> ""]

\* The itemData createBlackMarketListing is called with: a legal and an
\* illegal cargo type of the catalog, and a request without itemData
ItemInputs ==
    {[baseValue |-> 500, rarity |-> "common", legality |-> "legal"],
     [baseValue |-> 15000, rarity |-> "rare", legality |-> "illegal"],
     NoItem}

\* marketVolatility = 0.8 + Math.random() * 0.4, in percent: the middle of
\* the range
ListingVolatility == {100}

\* volatility = 0.9 + Math.random() * 0.2 of updateMarketPrices, in percent:
\* the ends of the range
DriftVolatility == {90, 109}

\* calculateBlackMarketPrice(itemData), for the drawn marketVolatility
calculateBlackMarketPrice(itemData, marketVolatility) ==
    LET basePrice == IF itemData.baseValue # 0 THEN itemData.baseValue
                     ELSE 1000
        rarity == IF itemData.rarity \in DOMAIN rarityMultiplier
                  THEN rarityMultiplier[itemData.rarity] ELSE 10
        legality == IF itemData.legality \in DOMAIN legalityMultiplier
                    THEN legalityMultiplier[itemData.legality] ELSE 10
    IN (basePrice * rarity * legality * marketVolatility) \div 10000

\* calculateListingRisk(itemData)
calculateListingRisk(itemData) ==
    IF itemData.legality \in DOMAIN baseRisk
    THEN baseRisk[itemData.legality] ELSE "medium"

\* createBlackMarketListing(itemData, sellerId)
createBlackMarketListing(itemData, marketVolatility) ==
    IF itemData = NoItem
    THEN \* itemData.baseValue of undefined
         /\ ret' = Threw("createBlackMarketListing", NoId, "TypeError")
         /\ UNCHANGED <<bmVars, exceptBlackMarket>>
    ELSE LET id == Cardinality(DOMAIN bmListings) + 1
             listing ==
                 [askingPrice |->
                      calculateBlackMarketPrice(itemData, marketVolatility),
                  status |-> "active",
                  expiresAt |-> now + BlackMarketTTL,
                  risk |-> calculateListingRisk(itemData)]
         IN /\ id <= MaxBmListings
            /\ bmListings' = [x \in DOMAIN bmListings \cup {id} |->
                                 IF x = id THEN listing ELSE bmListings[x]]
            /\ marketStats' = [marketStats EXCEPT !.totalListings = @ + 1]
            /\ ret' = Ok("createBlackMarketListing", id)
            /\ UNCHANGED <<bmTransactions, priceUpdates, exceptBlackMarket>>

\* ListingIsActive without the test of the status
ListingIsActive_AnyStatus(listingId) == listingId \in DOMAIN bmListings

\* The guard of purchaseBlackMarketItem: the listing exists and is active
ListingIsActive(listingId) ==
    listingId \in DOMAIN bmListings /\ bmListings[listingId].status = "active"

\* ListingAfterPurchase marking the listing sold whatever the outcome
ListingAfterPurchase_AlwaysSold(listing, intercepted) ==
    [listing EXCEPT !.status = "sold"]

\* The listing after a purchase: sold unless the purchase was intercepted
ListingAfterPurchase(listing, intercepted) ==
    IF intercepted THEN listing ELSE [listing EXCEPT !.status = "sold"]

\* purchaseBlackMarketItem(listingId, buyerId); intercepted is the outcome of
\* Math.random() < interceptionRisk, which both outcomes satisfy for each of
\* the risks 0.2, 0.1 and 0.05
purchaseBlackMarketItem(listingId, intercepted) ==
    IF ~ListingIsActive(listingId)
    THEN /\ ret' = Threw("purchaseBlackMarketItem", listingId,
                         "Listing not available")
         /\ UNCHANGED <<bmVars, exceptBlackMarket>>
    ELSE LET listing == bmListings[listingId]
             transaction ==
                 [listingId |-> listingId,
                  price |-> listing.askingPrice,
                  status |-> IF intercepted THEN "intercepted"
                             ELSE "completed",
                  risk |-> listing.risk]
         IN /\ Len(bmTransactions) < MaxBmTx
            /\ bmTransactions' = Append(bmTransactions, transaction)
            /\ marketStats' =
                  [marketStats EXCEPT
                      !.totalTransactions = @ + 1,
                      !.totalVolume = @ + transaction.price]
            /\ bmListings' =
                  [bmListings EXCEPT
                      ![listingId] = ListingAfterPurchase(@, intercepted)]
            /\ ret' = Ok("purchaseBlackMarketItem", listingId)
            /\ UNCHANGED <<priceUpdates, exceptBlackMarket>>

\* updateMarketPrices(): every active listing's askingPrice is multiplied by
\* a volatility drawn for it, and floored
updateMarketPrices(volatility) ==
    /\ priceUpdates < MaxPriceUpdates
    /\ priceUpdates' = priceUpdates + 1
    /\ bmListings' =
          [id \in DOMAIN bmListings |->
              IF bmListings[id].status = "active"
              THEN [bmListings[id] EXCEPT
                       !.askingPrice = (@ * volatility[id]) \div 100]
              ELSE bmListings[id]]
    /\ ret' = Ok("updateMarketPrices", NoId)
    /\ UNCHANGED <<bmTransactions, marketStats, exceptBlackMarket>>

CreateBlackMarketListing ==
    \E item \in ItemInputs, v \in ListingVolatility :
        createBlackMarketListing(item, v)

PurchaseBlackMarketItem ==
    \E id \in 1..(MaxBmListings + 1), intercepted \in BOOLEAN :
        purchaseBlackMarketItem(id, intercepted)

UpdateMarketPrices ==
    \E v \in [DOMAIN bmListings -> DriftVolatility] : updateMarketPrices(v)

--------------------------------------------------------------------------
(* CargoManager *)

\* loadFallbackCargoTypes(): the catalog, in the order the Map holds it;
\* baseValue in credits, volume in cargo units
loadFallbackCargoTypes ==
    << [id |-> "bulk_ore", legality |-> "legal", baseValue |-> 500,
        volume |-> 100, rarity |-> "common"],
       [id |-> "manufactured_goods", legality |-> "legal",
        baseValue |-> 2000, volume |-> 50, rarity |-> "common"],
       [id |-> "medical_supplies", legality |-> "legal", baseValue |-> 1500,
        volume |-> 25, rarity |-> "uncommon"],
       [id |-> "luxury_spices", legality |-> "restricted",
        baseValue |-> 5000, volume |-> 10, rarity |-> "rare"],
       [id |-> "military_tech", legality |-> "illegal", baseValue |-> 25000,
        volume |-> 5, rarity |-> "rare"],
       [id |-> "void_artifacts", legality |-> "restricted",
        baseValue |-> 50000, volume |-> 2, rarity |-> "legendary"],
       [id |-> "cybernetic_enhancements", legality |-> "restricted",
        baseValue |-> 8000, volume |-> 8, rarity |-> "uncommon"],
       [id |-> "stolen_data", legality |-> "illegal", baseValue |-> 15000,
        volume |-> 1, rarity |-> "rare"] >>

\* this.cargoTypes.get(id)
cargoTypes(id) ==
    LET i == CHOOSE j \in 1..Len(loadFallbackCargoTypes) :
                 loadFallbackCargoTypes[j].id = id
    IN loadFallbackCargoTypes[i]

\* The shipCapacity generateCargoManifest is called with: the request body's
\* number, which nothing validates
ShipCapacities == {0 - 1, 0, 12, 120}

\* The riskTolerance generateCargoManifest is called with; "reckless" is a
\* value outside the three the switch names
RiskTolerances == {"low", "medium", "high", "reckless"}

\* The two Math.random() results of one loop iteration, in percent, each at
\* an end of its range: pick selects the cargo type, amount the quantity
CargoDraws == [pick : {0, 99}, amount : {0, 99}]

NoManifest ==
    [cargo |-> << >>, totalValue |-> 0, totalVolume |-> 0, riskLevel |-> "low"]

Min(a, b) == IF a < b THEN a ELSE b

\* CargoEligible admitting illegal cargo under 'medium'
CargoEligible_MediumTakesAll(cargo, riskTolerance) ==
    CASE riskTolerance = "low" -> cargo.legality = "legal"
      [] riskTolerance = "medium" -> TRUE
      [] riskTolerance = "high" -> TRUE
      [] OTHER -> cargo.legality = "legal"

\* The filter of the catalog: switch (riskTolerance)
CargoEligible(cargo, riskTolerance) ==
    CASE riskTolerance = "low" -> cargo.legality = "legal"
      [] riskTolerance = "medium" -> cargo.legality # "illegal"
      [] riskTolerance = "high" -> TRUE
      [] OTHER -> cargo.legality = "legal"

\* generateCargoManifest up to its loop: the empty manifest, the capacity
\* and the draw pool
StartManifest(shipCapacity, riskTolerance) ==
    LET Test(cargo) == CargoEligible(cargo, riskTolerance)
        eligible == SelectSeq(loadFallbackCargoTypes, Test)
    IN /\ cargoPc = "idle"
       /\ manifestsGenerated < MaxManifests
       /\ cargoPc' = "loop"
       /\ manifest' = NoManifest
       /\ remainingCapacity' = shipCapacity
       /\ availableCargo' = [i \in 1..Len(eligible) |-> eligible[i].id]
       /\ ret' = Ret("generateCargoManifest", shipCapacity, riskTolerance, "")
       /\ UNCHANGED <<cargoStats, manifestsGenerated, exceptCargo>>

\* Math.min(Math.floor(remainingCapacity / cargo.volume),
\*          cargo.rarity === 'legendary' ? 1 : 10), for remaining > 0
MaxQuantity(cargo, remaining) ==
    Min(remaining \div cargo.volume,
        IF cargo.rarity = "legendary" THEN 1 ELSE 10)

\* manifest.riskLevel after a line item of the given legality
RiskLevelAfter(riskLevel, legality) ==
    IF legality = "illegal" THEN "extreme"
    ELSE IF legality = "restricted" /\ riskLevel = "low" THEN "medium"
    ELSE riskLevel

\* The manifest with a line item of quantity units of cargo added
WithLineItem(m, cargo, quantity) ==
    [cargo |-> Append(m.cargo,
                      [type |-> cargo.id,
                       quantity |-> quantity,
                       unitValue |-> cargo.baseValue,
                       totalValue |-> cargo.baseValue * quantity,
                       volume |-> cargo.volume * quantity,
                       legality |-> cargo.legality]),
     totalValue |-> m.totalValue + cargo.baseValue * quantity,
     totalVolume |-> m.totalVolume + cargo.volume * quantity,
     riskLevel |-> RiskLevelAfter(m.riskLevel, cargo.legality)]

\* Splice removing nothing
Splice_Nothing(s, index) == s

\* availableCargo.splice(index, 1), index counted from 1
Splice(s, index) == SubSeq(s, 1, index - 1) \o SubSeq(s, index + 1, Len(s))

\* One iteration of the while loop of generateCargoManifest
ManifestLoop(draw) ==
    LET index == (draw.pick * Len(availableCargo)) \div 100 + 1
        cargo == cargoTypes(availableCargo[index])
        maxQuantity == MaxQuantity(cargo, remainingCapacity)
        quantity == Min(maxQuantity, (draw.amount * 5) \div 100 + 1)
    IN /\ cargoPc = "loop"
       /\ remainingCapacity > 0
       /\ Len(availableCargo) > 0
       /\ IF maxQuantity > 0
          THEN /\ manifest' = WithLineItem(manifest, cargo, quantity)
               /\ remainingCapacity' =
                     remainingCapacity - cargo.volume * quantity
          ELSE UNCHANGED <<manifest, remainingCapacity>>
       /\ availableCargo' = Splice(availableCargo, index)
       /\ UNCHANGED <<cargoPc, cargoStats, manifestsGenerated, ret,
                      exceptCargo>>

\* updateCargoStats(manifest)
updateCargoStats(m) ==
    LET contraband ==
            {i \in 1..Len(m.cargo) :
                cargoTypes(m.cargo[i].type).legality = "illegal"}
    IN [totalCargo |-> cargoStats.totalCargo + Len(m.cargo),
        totalValue |-> cargoStats.totalValue + m.totalValue,
        contrabandValue |->
            cargoStats.contrabandValue
            + SumOver([i \in contraband |-> m.cargo[i].totalValue],
                      contraband)]

\* generateCargoManifest after its loop: the manifest is stored, the
\* statistics are updated and the manifest is returned
ReturnManifest ==
    /\ cargoPc = "loop"
    /\ ~(remainingCapacity > 0 /\ Len(availableCargo) > 0)
    /\ cargoPc' = "idle"
    /\ manifestsGenerated' = manifestsGenerated + 1
    /\ cargoStats' = updateCargoStats(manifest)
    /\ UNCHANGED <<availableCargo, remainingCapacity, manifest, ret,
                   exceptCargo>>

GenerateCargoManifest ==
    \E shipCapacity \in ShipCapacities, riskTolerance \in RiskTolerances :
        StartManifest(shipCapacity, riskTolerance)

CargoLoop == \E draw \in CargoDraws : ManifestLoop(draw)

--------------------------------------------------------------------------
(* SmugglingManager *)

\* riskLevels: interceptionChance in percent, rewardMultiplier in tenths
riskLevels ==
    [low |-> [interceptionChance |-> 5, rewardMultiplier |-> 12],
     medium |-> [interceptionChance |-> 15, rewardMultiplier |-> 18],
     high |-> [interceptionChance |-> 30, rewardMultiplier |-> 25],
     extreme |-> [interceptionChance |-> 50, rewardMultiplier |-> 40]]

\* The risk and the value generateRandomSmugglingRun draws: value is
\* Math.floor(Math.random() * 50000) + 10000, at the ends of its range
RunDraws ==
    {[risk |-> "low", value |-> 10000], [risk |-> "high", value |-> 59999]}

\* uuidv4() of the next run: runs are numbered in the order they start
NextRunId == smugglingStats.totalRuns + Cardinality(DOMAIN activeRuns) + 1

\* The run completeSmugglingRun pushes onto completedRuns
CompletedRun(id, run, success) ==
    [id |-> id,
     risk |-> run.risk,
     value |-> run.value,
     success |-> success,
     intercepted |-> ~success,
     reward |-> IF success
                THEN (run.value * riskLevels[run.risk].rewardMultiplier)
                     \div 10
                ELSE 0]

\* simulateSmugglingActivity(): with start (Math.random() < 0.3) a run is
\* generated, put in activeRuns, and its completion is scheduled
simulateSmugglingActivity(start, draw) ==
    IF start
    THEN /\ runsLeft > 0
         /\ runsLeft' = runsLeft - 1
         /\ activeRuns' = [r \in DOMAIN activeRuns \cup {NextRunId} |->
                              IF r = NextRunId THEN draw ELSE activeRuns[r]]
         /\ runTimers' = runTimers \cup {NextRunId}
         /\ ret' = Ok("simulateSmugglingActivity", NextRunId)
         /\ UNCHANGED <<completedRuns, smugglingStats, completionLog,
                        exceptSmuggling>>
    ELSE /\ ret' = Ok("simulateSmugglingActivity", NoId)
         /\ UNCHANGED <<smugglingVars, exceptSmuggling>>

\* completedRuns is cut to its last CompletedRunsKeep entries when it grows
\* beyond CompletedRunsLimit
CompletedRunsLimit == 100
CompletedRunsKeep == 50

\* KeptRuns keeping the oldest runs
KeptRuns_Oldest(pushed) ==
    IF Len(pushed) > CompletedRunsLimit
    THEN Slice0(pushed, CompletedRunsKeep)
    ELSE pushed

\* if (this.completedRuns.length > 100)
\*     this.completedRuns = this.completedRuns.slice(-50)
KeptRuns(pushed) ==
    IF Len(pushed) > CompletedRunsLimit
    THEN SliceLast(pushed, CompletedRunsKeep)
    ELSE pushed

\* RunIsActive that takes a run of the completed history for an active one
RunIsActive_OrCompleted(runId) ==
    \/ runId \in DOMAIN activeRuns
    \/ \E i \in 1..Len(completedRuns) : completedRuns[i].id = runId

\* RunIsActive looking the run up under a key no run is stored under
RunIsActive_WrongKey(runId) == FALSE

\* const run = this.activeRuns.get(runId); if (!run) return
RunIsActive(runId) == runId \in DOMAIN activeRuns

\* The run completeSmugglingRun works on: the active run, or for a mutated
\* guard the run as the history holds it
RunToComplete(runId) ==
    IF runId \in DOMAIN activeRuns THEN activeRuns[runId]
    ELSE LET i == CHOOSE j \in 1..Len(completedRuns) :
                      completedRuns[j].id = runId
         IN [risk |-> completedRuns[i].risk, value |-> completedRuns[i].value]

\* The effect of completeSmugglingRun(runId) on the stores; success is
\* Math.random() > riskLevel.interceptionChance
completeSmugglingRun(runId, success) ==
    IF ~RunIsActive(runId)
    THEN UNCHANGED <<activeRuns, completedRuns, smugglingStats, completionLog>>
    ELSE LET run == CompletedRun(runId, RunToComplete(runId), success)
         IN /\ smugglingStats' =
                  [smugglingStats EXCEPT
                      !.successfulRuns = IF success THEN @ + 1 ELSE @,
                      !.interceptedRuns = IF success THEN @ ELSE @ + 1,
                      !.totalRuns = @ + 1,
                      !.totalValue = @ + run.value]
            /\ completedRuns' = KeptRuns(Append(completedRuns, run))
            /\ activeRuns' = [r \in DOMAIN activeRuns \ {runId} |->
                                 activeRuns[r]]
            /\ completionLog' = Append(completionLog, run)

\* The timeout set by simulateSmugglingActivity fires
RunTimerFires ==
    \E runId \in runTimers, success \in BOOLEAN :
        /\ completeSmugglingRun(runId, success)
        /\ runTimers' = runTimers \ {runId}
        /\ ret' = Ok("setTimeout completeSmugglingRun", runId)
        /\ UNCHANGED <<runsLeft, exceptSmuggling>>

\* The ids of the runs started last
RecentRunIds == {r \in (NextRunId - 1 - MaxRuns)..(NextRunId - 1) : r >= 1}

\* completeSmugglingRun called again, for a run whose timeout has fired
CompleteSmugglingRun ==
    \E runId \in RecentRunIds, success \in BOOLEAN :
        /\ runId \notin runTimers
        /\ completeSmugglingRun(runId, success)
        /\ ret' = Ok("completeSmugglingRun", runId)
        /\ UNCHANGED <<runTimers, runsLeft, exceptSmuggling>>

SimulateSmugglingActivity ==
    \E start \in BOOLEAN, draw \in RunDraws :
        simulateSmugglingActivity(start, draw)

--------------------------------------------------------------------------
(* CommercialPlatform.initialize and the loaders of the lore *)

\* The outcomes of the fetch of the provider's /health: it throws (no
\* provider), or it resolves with response.ok true or false
HealthOutcomes == {"throws", "ok", "not ok"}

\* The outcomes of axios.get on a lore endpoint: the request rejects
\* (network error or a status outside 2xx); it resolves with the body null;
\* with a body that has no data property (a bare array, a string); or with
\* a body whose data property holds the catalog
SmugglingAnswers == {"rejects", "null body", "no data", "data"}

\* ... for /api/lore/cargo the data is an array with one cargo type of a
\* new id, with one that has the id of a built-in cargo type, or with a
\* cargo type of a new id followed by null
CargoAnswers == {"rejects", "no data", "new type", "known type", "null item"}

\* ... for /api/lore/jobs
JobAnswers == {"rejects", "no data", "data"}

NotAsked == "not asked"

\* the value of a variable nothing was assigned to, for the arrays
Unset == << >>

\* The job templates a lore provider answers with
LoreJobTemplates ==
    << [type |-> "heist", name |-> "Vault Job", risk |-> "extreme",
        payout |-> [min |-> 100, max |-> 200],
        duration |-> [min |-> 1, max |-> 2]],
       [type |-> "heist", name |-> "Inside Job", risk |-> "high",
        payout |-> [min |-> 100, max |-> 200],
        duration |-> [min |-> 1, max |-> 2]],
       [type |-> "escort", name |-> "Convoy Escort", risk |-> "low",
        payout |-> [min |-> 100, max |-> 200],
        duration |-> [min |-> 1, max |-> 2]] >>

\* initializeLoreIntegration(): loreIntegration is set, then reset to null
\* when the fetch of /health throws
initializeLoreIntegration(health) ==
    /\ initPc = "lore"
    /\ loreIntegration' = IF health = "throws" THEN "null" ELSE "configured"
    /\ initPc' = "smuggling"
    /\ ret' = Ret("initializeLoreIntegration", NoId, health, "")
    /\ UNCHANGED <<smugglingLore, cargoCatalog, jobTemplates, loreLog,
                    exceptInit>>

\* this.smugglingLore after loadSmugglingData(): the fallback when no
\* provider is configured or the try block throws, otherwise
\* response.data.data, which is undefined for a body without data
SmugglingLoreLoaded(answer) ==
    IF loreIntegration = "null" THEN "fallback"
    ELSE CASE answer \in {"rejects", "null body"} -> "fallback"
           [] answer = "no data" -> "undefined"
           [] OTHER -> "lore"

\* SmugglingManager.initialize(): loadSmugglingData(), then the simulation
\* timer is set
loadSmugglingData(answer) ==
    /\ initPc = "smuggling"
    /\ smugglingLore' = SmugglingLoreLoaded(answer)
    /\ loreLog' = [loreLog EXCEPT !.smuggling =
                      IF loreIntegration = "null" THEN NotAsked ELSE answer]
    /\ initPc' = "cargo"
    /\ ret' = Ret("loadSmugglingData", NoId, answer, "")
    /\ UNCHANGED <<loreIntegration, cargoCatalog, jobTemplates, exceptInit>>

\* The ids cargoData.forEach(cargo => this.cargoTypes.set(cargo.id, cargo))
\* has set when it ends or throws: forEach of undefined throws at once,
\* cargo.id of null throws after the item before it was set
LoreCargoIds(answer) ==
    CASE answer = "new type" -> <<"lore_relic">>
      [] answer = "known type" -> <<"bulk_ore">>
      [] answer = "null item" -> <<"lore_relic">>
      [] OTHER -> << >>

\* the ids of the entries of a catalog
CatalogIds(catalog) == {catalog[i].id : i \in 1..Len(catalog)}

RECURSIVE SetIfAbsent(_, _)
\* cargoTypes.forEach(cargo => { if (!this.cargoTypes.has(cargo.id))
\* this.cargoTypes.set(cargo.id, cargo) }) for the built-in types ids
SetIfAbsent(catalog, ids) ==
    IF ids = << >> THEN catalog
    ELSE SetIfAbsent(
             IF Head(ids) \in CatalogIds(catalog) THEN catalog
             ELSE Append(catalog, [id |-> Head(ids), origin |-> "fallback"]),
             Tail(ids))

\* the ids of the built-in cargo types, in the order of the array
FallbackCargoIds ==
    [i \in 1..Len(loadFallbackCargoTypes) |-> loadFallbackCargoTypes[i].id]

\* this.cargoTypes after loadCargoTypes()
CargoCatalogLoaded(answer) ==
    LET lore == IF loreIntegration = "null" THEN << >>
                ELSE LoreCargoIds(answer)
        fromLore == [i \in 1..Len(lore) |->
                        [id |-> lore[i], origin |-> "lore"]]
    IN SetIfAbsent(cargoCatalog \o fromLore, FallbackCargoIds)

\* CargoManager.initialize(): loadCargoTypes()
loadCargoTypes(answer) ==
    /\ initPc = "cargo"
    /\ cargoCatalog' = CargoCatalogLoaded(answer)
    /\ loreLog' = [loreLog EXCEPT !.cargo =
                      IF loreIntegration = "null" THEN NotAsked ELSE answer]
    /\ initPc' = "jobs"
    /\ ret' = Ret("loadCargoTypes", NoId, answer, "")
    /\ UNCHANGED <<loreIntegration, smugglingLore, jobTemplates, exceptInit>>

\* this.jobTemplates after the try block of loadJobTemplates: jobData when
\* the request resolved, the value it had otherwise
TemplatesAfterTry(templates, answer) ==
    IF loreIntegration = "null" \/ answer = "rejects" THEN templates
    ELSE IF answer = "no data" THEN Unset
    ELSE LoreJobTemplates

\* TemplatesAfterLoad assigning the fallback only when nothing was fetched
TemplatesAfterLoad_UnlessFetched(templates) ==
    IF templates = Unset THEN getFallbackJobTemplates ELSE templates

\* this.jobTemplates = this.getFallbackJobTemplates(), the last statement of
\* loadJobTemplates
TemplatesAfterLoad(templates) == getFallbackJobTemplates

\* JobBoardManager.initialize(): loadJobTemplates(), then startJobGeneration()
\* sets the intervals of generateRandomJobs and cleanupExpiredJobs
loadJobTemplates(answer) ==
    /\ initPc = "jobs"
    /\ jobTemplates' =
          TemplatesAfterLoad(TemplatesAfterTry(jobTemplates, answer))
    /\ loreLog' = [loreLog EXCEPT !.jobs =
                      IF loreIntegration = "null" THEN NotAsked ELSE answer]
    /\ initPc' = "done"
    /\ ret' = Ret("loadJobTemplates", NoId, answer, "")
    /\ UNCHANGED <<loreIntegration, smugglingLore, cargoCatalog, exceptInit>>

InitializeLoreIntegration ==
    \E health \in HealthOutcomes : initializeLoreIntegration(health)

LoadSmugglingData == \E answer \in SmugglingAnswers : loadSmugglingData(answer)

LoadCargoTypes == \E answer \in CargoAnswers : loadCargoTypes(answer)

LoadJobTemplates == \E answer \in JobAnswers : loadJobTemplates(answer)

--------------------------------------------------------------------------
(* The purchase route, the subscription route and the 4-hourly update *)

\* POST /api/marketplace/purchase/:listingId: purchaseListing, then
\* processPayment(transaction.amount, 'USD', paymentMethod, { ...paymentData,
\* transactionId }) up to its await.  An Error of purchaseListing ends the
\* request with status 500 before any payment is started.
purchaseRoute(listingId, paymentData) ==
    IF listingId \notin DOMAIN listings
    THEN /\ ret' = Threw("purchase route", listingId, "Listing not found")
         /\ UNCHANGED <<marketVars, paymentVars, subscriptions, streams,
                         exceptPlatform>>
    ELSE IF ~CategoryIsDefined(listings[listingId].category)
    THEN /\ ret' = Threw("purchase route", listingId, "TypeError")
         /\ UNCHANGED <<marketVars, paymentVars, subscriptions, streams,
                         exceptPlatform>>
    ELSE LET t == MarketTransaction(listingId, listings[listingId])
             c == calls + 1
         IN /\ Len(transactions) < MaxTx
            /\ calls < MaxCalls
            /\ transactions' = Append(transactions, t)
            /\ listings' = [listings EXCEPT
                              ![listingId] = PurchasedListing(@, t.amount)]
            /\ calls' = c
            /\ timers' = Append(timers,
                                PaymentTransaction(c, t.amount, paymentData))
            /\ ret' = Ok("purchase route", listingId)
            /\ UNCHANGED <<payments, subscriptions, streams, exceptPlatform>>

\* categories[Math.floor(Math.random() * categories.length)]: the first and
\* the last key of the category table
UpdateCategories == {"cosmetics", "premium"}

\* basePrice * (0.8 + Math.random() * 0.4): the lowest whole number of cents
\* in the range
PriceDraws(category) == {(categories[category].basePrice * 4) \div 5 + 1}

\* plans[Math.floor(Math.random() * plans.length)]: the last key of the plan
\* table
UpdatePlans == {"lifetime"}

\* The callback of cron.schedule('0 */4 * * *'): a listing is created; with
\* purchase (Math.random() > 0.6) it is bought and its price pushed to the
\* marketplace stream; with signup (Math.random() > 0.8) a subscription is
\* created and the price of its plan pushed to the subscriptions stream
commercialUpdate(category, price, purchase, signup, plan) ==
    LET id == Cardinality(DOMAIN listings) + 1
        listing == NewListing([category |-> category, price |-> price])
        t == MarketTransaction(id, listing)
        sid == Cardinality(DOMAIN subscriptions) + 1
    IN /\ id <= MaxListings
       /\ purchase => Len(transactions) < MaxTx
       /\ signup => sid <= MaxSubs
       /\ listings' = [x \in DOMAIN listings \cup {id} |->
                          IF x # id THEN listings[x]
                          ELSE IF purchase
                               THEN PurchasedListing(listing, t.amount)
                               ELSE listing]
       /\ transactions' =
             IF purchase THEN Append(transactions, t) ELSE transactions
       /\ subscriptions' =
             IF signup
             THEN [x \in DOMAIN subscriptions \cup {sid} |->
                      IF x = sid THEN NewSubscription(plan)
                      ELSE subscriptions[x]]
             ELSE subscriptions
       /\ streams' =
             [streams EXCEPT
                 !["marketplace"] =
                     IF purchase THEN JsAdd(@, Num(listing.price)) ELSE @,
                 !["subscriptions"] =
                     IF signup THEN JsAdd(@, Num(plans[plan].price)) ELSE @]
       /\ ret' = Ok("commercial update", id)
       /\ UNCHANGED <<paymentVars, exceptPlatform>>

\* The paymentData of the request bodies of the purchase route: without id
\* and status
RoutePaymentData == {[id |-> NoId, status |-> ""]}

\* The planId of the request bodies of the subscription route: a plan of the
\* table
RoutePlans == {"premium"}

PurchaseRoute ==
    \E id \in 1..(MaxListings + 1), d \in RoutePaymentData :
        purchaseRoute(id, d)

\* POST /api/subscriptions: createSubscription and nothing else
SubscriptionRoute == \E p \in RoutePlans : createSubscription(p)

CommercialUpdate ==
    \E category \in UpdateCategories, purchase \in BOOLEAN,
       signup \in BOOLEAN, plan \in UpdatePlans :
        \E price \in PriceDraws(category) :
            commercialUpdate(category, price, purchase, signup, plan)

--------------------------------------------------------------------------
(* The state after construction *)

\* The stores other than SmugglingManager
InitStores ==
    /\ listings = << >>
    /\ transactions = << >>
    /\ payments = << >>
    /\ timers = << >>
    /\ calls = 0
    /\ subscriptions = << >>
    /\ streams = [s \in Streams |-> Num(0)]
    /\ now = 0
    /\ jobs = << >>
    /\ jobsCreated = 0
    /\ completedJobs = << >>
    /\ jobStats = [totalJobs |-> 0, completedJobs |-> 0, failedJobs |-> 0,
                   totalPayout |-> 0]
    /\ bmListings = << >>
    /\ bmTransactions = << >>
    /\ marketStats = [totalListings |-> 0, totalTransactions |-> 0,
                      totalVolume |-> 0]
    /\ priceUpdates = 0
    /\ cargoPc = "idle"
    /\ availableCargo = << >>
    /\ remainingCapacity = 0
    /\ manifest = NoManifest
    /\ cargoStats = [totalCargo |-> 0, totalValue |-> 0, contrabandValue |-> 0]
    /\ manifestsGenerated = 0
    /\ campaigns = << >>
    /\ ret = Ok("init", NoId)

\* The fields the loaders write, once CommercialPlatform.initialize() has
\* run with no lore provider
Initialized ==
    /\ initPc = "done"
    /\ loreIntegration = "null"
    /\ smugglingLore = "fallback"
    /\ cargoCatalog = [i \in 1..Len(FallbackCargoIds) |->
                          [id |-> FallbackCargoIds[i], origin |-> "fallback"]]
    /\ jobTemplates = getFallbackJobTemplates
    /\ loreLog = [smuggling |-> NotAsked, cargo |-> NotAsked,
                  jobs |-> NotAsked]

\* The same fields after construction, before initialize() is called
Constructed ==
    /\ initPc = "lore"
    /\ loreIntegration = "null"
    /\ smugglingLore = "unset"
    /\ cargoCatalog = << >>
    /\ jobTemplates = Unset
    /\ loreLog = [smuggling |-> NotAsked, cargo |-> NotAsked,
                  jobs |-> NotAsked]

Init ==
    /\ InitStores
    /\ Initialized
    /\ activeRuns = << >>
    /\ completedRuns = << >>
    /\ smugglingStats = [totalRuns |-> 0, successfulRuns |-> 0,
                         interceptedRuns |-> 0, totalValue |-> 0]
    /\ runTimers = {}
    /\ runsLeft = MaxRuns
    /\ completionLog = << >>

\* The state after HistoryStart runs of low risk and value 10000 were
\* started and completed with success, one after the other
InitHistory ==
    /\ InitStores
    /\ Initialized
    /\ activeRuns = << >>
    /\ completedRuns = [i \in 1..HistoryStart |->
                           CompletedRun(i, [risk |-> "low", value |-> 10000],
                                        TRUE)]
    /\ smugglingStats = [totalRuns |-> HistoryStart,
                         successfulRuns |-> HistoryStart,
                         interceptedRuns |-> 0,
                         totalValue |-> HistoryStart * 10000]
    /\ runTimers = {}
    /\ runsLeft = MaxRuns
    /\ completionLog = completedRuns

\* The state after construction, initialize() not yet called
InitConstructed ==
    /\ InitStores
    /\ Constructed
    /\ activeRuns = << >>
    /\ completedRuns = << >>
    /\ smugglingStats = [totalRuns |-> 0, successfulRuns |-> 0,
                         interceptedRuns |-> 0, totalValue |-> 0]
    /\ runTimers = {}
    /\ runsLeft = MaxRuns
    /\ completionLog = << >>

NextMarket == CreateListing \/ PurchaseListing

SpecMarket == Init /\ [][NextMarket]_vars

NextPay == ProcessPayment \/ SettlePayment \/ RefundTransaction

SpecPay == Init /\ [][NextPay]_vars

\* The timer of a suspended processPayment call always fires.
FairSpecPay == SpecPay /\ WF_vars(SettlePayment)

NextSub == CreateSubscription \/ CancelSubscription

SpecSub == Init /\ [][NextSub]_vars

NextRev == UpdateRevenue \/ PredictRevenue

SpecRev == Init /\ [][NextRev]_vars

NextJobs ==
    \/ GenerateRandomJobs
    \/ cleanupExpiredJobs
    \/ AcceptJob
    \/ CompleteJob
    \/ AdvanceTime

SpecJobs == Init /\ [][NextJobs]_vars

NextBlackMarket ==
    \/ CreateBlackMarketListing
    \/ PurchaseBlackMarketItem
    \/ UpdateMarketPrices
    \/ AdvanceTime

SpecBlackMarket == Init /\ [][NextBlackMarket]_vars

NextCargo == GenerateCargoManifest \/ CargoLoop \/ ReturnManifest

SpecCargo == Init /\ [][NextCargo]_vars

\* generateCargoManifest is synchronous: once called, its loop keeps running
\* and its return follows the loop
FairSpecCargo == SpecCargo /\ WF_vars(CargoLoop \/ ReturnManifest)

NextAcquisition == CreateCampaign \/ TrackAcquisitionEvent

SpecAcquisition == Init /\ [][NextAcquisition]_vars

NextInit ==
    \/ InitializeLoreIntegration
    \/ LoadSmugglingData
    \/ LoadCargoTypes
    \/ LoadJobTemplates
    \/ GenerateRandomJobs

SpecInit == InitConstructed /\ [][NextInit]_vars

NextPlatform ==
    \/ PurchaseRoute
    \/ SettlePayment
    \/ SubscriptionRoute
    \/ CommercialUpdate

SpecPlatform == Init /\ [][NextPlatform]_vars

NextSmuggling ==
    \/ SimulateSmugglingActivity
    \/ RunTimerFires
    \/ CompleteSmugglingRun

SpecSmuggling == Init /\ [][NextSmuggling]_vars

\* Timeouts always fire.
FairSpecSmuggling == SpecSmuggling /\ WF_vars(RunTimerFires)

\* The runs that follow a long history
SpecSmugglingHistory == InitHistory /\ [][NextSmuggling]_vars

\* Every operation of every store
Next ==
    \/ NextMarket
    \/ NextPay
    \/ NextSub
    \/ NextRev
    \/ NextJobs
    \/ NextBlackMarket
    \/ NextCargo
    \/ NextSmuggling
    \/ NextAcquisition
    \/ NextPlatform
    \/ NextInit

Spec == Init /\ [][Next]_vars

--------------------------------------------------------------------------
(* Claims about MarketplaceManager, under SpecMarket *)

\* The listing counters a purchase must leave alone: those of every listing
\* but id
OtherCountersUnchanged(id) ==
    \A o \in DOMAIN listings \ {id} :
        /\ o \in DOMAIN listings'
        /\ listings'[o].purchases = listings[o].purchases
        /\ listings'[o].revenue = listings[o].revenue

\* What C1 says a purchaseListing(id) step does
PurchaseEffect(id) ==
    /\ ret'.err = ""
    /\ Len(transactions') = Len(transactions) + 1
    /\ SubSeq(transactions', 1, Len(transactions)) = transactions
    /\ transactions'[Len(transactions')].listingId = id
    /\ transactions'[Len(transactions')].amount = listings[id].price
    /\ listings'[id].purchases = listings[id].purchases + 1
    /\ listings'[id].revenue =
          listings[id].revenue + transactions'[Len(transactions')].amount
    /\ OtherCountersUnchanged(id)

\* C1: for every listing id present in the store, purchaseListing appends
\* exactly one transaction whose amount is the listing's price, raises that
\* listing's purchases by 1 and its revenue by the transaction amount, and
\* changes the counters of no other listing.
C1_PurchaseCountsOnce ==
    [][\A id \in DOMAIN listings :
          (ret'.op = "purchaseListing" /\ ret'.id = id) => PurchaseEffect(id)]_vars

\* the amounts of the recorded transactions whose listing, looked up in the
\* store by the transaction's listingId, has category c
AmountsOfCategory(c) ==
    LET idx == {i \in 1..Len(transactions) :
                   /\ transactions[i].listingId \in DOMAIN listings
                   /\ listings[transactions[i].listingId].category = c}
    IN SumOver([i \in idx |-> transactions[i].amount], idx)

\* C2: after any sequence of createListing and purchaseListing, for every
\* category C of the table, getMarketAnalytics().categoryStats[C].revenue is
\* the sum of the amounts of the recorded transactions whose listing has
\* category C.
C2_CategoryRevenue ==
    \A c \in Categories :
        getMarketAnalytics.categoryStats[c].revenue = AmountsOfCategory(c)

\* Two categories have revenue, of different amounts.
C2_Witness ==
    /\ getMarketAnalytics.categoryStats["cosmetics"].revenue = 499
    /\ getMarketAnalytics.categoryStats["equipment"].revenue = 999

--------------------------------------------------------------------------
(* Claims about PaymentProcessor, under SpecPay and FairSpecPay *)

\* the ledger records appended by call c
RecordsOf(c) == {i \in 1..Len(payments) : payments[i].call = c}

Suspended(c) == \E i \in 1..Len(timers) : timers[i].call = c

C5_Ledger ==
    /\ \A i \in 1..Len(payments) : payments[i].status \in {"completed", "failed"}
    /\ \A c \in 1..calls :
          Cardinality(RecordsOf(c)) = IF Suspended(c) THEN 0 ELSE 1
    /\ ret.op = "processPayment" => ret.err = ""

\* C5: for any number of processPayment calls, overlapping in the processing
\* delay or not, every call eventually appends exactly one record to the
\* ledger, the record's status is 'completed' or 'failed' (never
\* 'processing'), and a failed payment is returned, not thrown.
C5_EveryCallSettlesOnce ==
    /\ []C5_Ledger
    /\ \A c \in 1..MaxCalls :
          (calls >= c) ~> (Cardinality(RecordsOf(c)) = 1 /\ ~Suspended(c))

\* Two calls are suspended in the delay together, and an earlier call was
\* recorded as failed.
C5_Witness ==
    /\ Len(timers) = 2
    /\ \E i \in 1..Len(payments) : payments[i].status = "failed"

\* C6: refundTransaction with an id that matches no ledger record fails with
\* 'Transaction not found' and leaves the ledger, refund sub-records
\* included, unchanged.
C6_RefundUnknownFails ==
    [][(/\ ret'.op = "refundTransaction"
        /\ \A i \in 1..Len(payments) : payments[i].id # ret'.id)
       => (/\ ret'.err = "Transaction not found"
           /\ payments' = payments)]_vars

\* A refund of an unknown id has failed on a ledger that holds records, one
\* of them refunded.
C6_Witness ==
    /\ ret.op = "refundTransaction"
    /\ ret.err = "Transaction not found"
    /\ \E i \in 1..Len(payments) : payments[i].refund.present
    /\ \A i \in 1..Len(payments) : payments[i].id # ret.id

--------------------------------------------------------------------------
(* Claims about SubscriptionManager, under SpecSub *)

\* the sum of the revenue snapshots of the subscriptions S, as a number
SnapshotSum(S) == SumOver([s \in S |-> subscriptions[s].revenue.v], S)

\* What C7 says getSubscriptionAnalytics() returns
AnalyticsCountActive ==
    LET a == getSubscriptionAnalytics
        active == {s \in DOMAIN subscriptions :
                      subscriptions[s].status = "active"}
    IN /\ a.totalActive = Cardinality(active)
       /\ a.totalRevenue = Num(SnapshotSum(active))
       /\ \A p \in Plans :
             a.revenueByPlan[p] =
                Num(SnapshotSum({s \in active : subscriptions[s].planId = p}))

\* What C7 says creating a subscription to plan p does to the analytics
RaisedByPrice(p) ==
    LET a == getSubscriptionAnalytics
    IN /\ a.totalRevenue.t = "num"
       /\ a'.totalRevenue = Num(a.totalRevenue.v + plans[p].price)
       /\ a'.revenueByPlan[p] = Num(a.revenueByPlan[p].v + plans[p].price)
       /\ \A q \in Plans \ {p} : a'.revenueByPlan[q] = a.revenueByPlan[q]

\* C7: after any sequence of createSubscription and cancelSubscription,
\* getSubscriptionAnalytics() counts only the active records: totalActive is
\* their number, totalRevenue the sum of their revenue snapshots and
\* revenueByPlan[P] that sum restricted to plan P; creating a subscription to
\* plan P raises totalRevenue and revenueByPlan[P] by exactly P's price and
\* leaves the other plans' entries unchanged.
C7_AnalyticsOfActive ==
    [][/\ AnalyticsCountActive'
       /\ \A p \in Plans :
             (ret'.op = "createSubscription" /\ ret'.key = p /\ ret'.err = "")
             => RaisedByPrice(p)]_vars

\* C8: cancelSubscription of an id not in the book fails with 'Subscription
\* not found' and changes nothing; for an id in the book it sets the status
\* to 'cancelled'; a cancelled subscription stays in the book, cancelled, in
\* every later state.
C8_CancelledForGood ==
    [][/\ (ret'.op = "cancelSubscription" /\ ret'.id \notin DOMAIN subscriptions)
          => (ret'.err = "Subscription not found"
              /\ subscriptions' = subscriptions)
       /\ (ret'.op = "cancelSubscription" /\ ret'.id \in DOMAIN subscriptions)
          => (ret'.err = "" /\ subscriptions'[ret'.id].status = "cancelled")
       /\ \A s \in DOMAIN subscriptions :
             subscriptions[s].status = "cancelled"
             => (s \in DOMAIN subscriptions'
                 /\ subscriptions'[s].status = "cancelled")]_vars

\* A subscription was cancelled, another one was created after it, and a
\* cancel of an id not in the book has failed.
C8_Witness ==
    /\ ret.op = "cancelSubscription"
    /\ ret.err = "Subscription not found"
    /\ 2 \in DOMAIN subscriptions
    /\ subscriptions[1].status = "cancelled"
    /\ subscriptions[2].status = "active"

\* C10: createSubscription fails with 'Invalid plan' and adds no record for
\* every planId that is not one of basic, premium, vip, lifetime.
C10_InvalidPlanRejected ==
    [][(ret'.op = "createSubscription" /\ ret'.key \notin Plans)
       => (ret'.err = "Invalid plan" /\ subscriptions' = subscriptions)]_vars

--------------------------------------------------------------------------
(* Claims about RevenueManager, under SpecRev *)

\* C9: updateRevenue(stream, amount) fails with an invalid-stream error and
\* leaves every stream total unchanged when stream is not one of
\* subscriptions, marketplace, ads, partnerships, merchandise; for one of
\* these it adds amount to that stream only.
C9_InvalidStreamRejected ==
    [][ret'.op = "updateRevenue" =>
          IF ret'.key \notin Streams
          THEN ret'.err = "Invalid stream" /\ streams' = streams
          ELSE /\ ret'.err = ""
               /\ streams'[ret'.key] = JsAdd(streams[ret'.key], Num(ret'.id))
               /\ \A k \in DOMAIN streams \ {ret'.key} :
                     k \in DOMAIN streams' /\ streams'[k] = streams[k]]_vars

--------------------------------------------------------------------------
(* Claims about JobBoardManager, under SpecJobs *)

\* the status changes C3 allows
JobTransitions ==
    {<<"available", "active">>, <<"active", "completed">>,
     <<"active", "failed">>}

JobStoreUnchanged ==
    /\ jobs' = jobs
    /\ completedJobs' = completedJobs
    /\ jobStats' = jobStats

\* C3: a job's status changes only along available -> active -> {completed,
\* failed}: acceptJob succeeds only on an available job, completeJob only on
\* an active job, and any other attempt (on a job in another status, or on
\* an unknown id) fails with an error and leaves the job, the completed-jobs
\* history and jobStats unchanged.
C3_JobStateMachine ==
    [][/\ \A j \in DOMAIN jobs \cap DOMAIN jobs' :
             \/ jobs'[j].status = jobs[j].status
             \/ <<jobs[j].status, jobs'[j].status>> \in JobTransitions
       /\ \A j \in DOMAIN jobs' \ DOMAIN jobs : jobs'[j].status = "available"
       /\ ret'.op = "acceptJob" =>
             IF ret'.id \in DOMAIN jobs /\ jobs[ret'.id].status = "available"
             THEN ret'.err = "" /\ jobs'[ret'.id].status = "active"
             ELSE ret'.err = "Job not available" /\ JobStoreUnchanged
       /\ ret'.op = "completeJob" =>
             IF ret'.id \in DOMAIN jobs /\ jobs[ret'.id].status = "active"
             THEN /\ ret'.err = ""
                  /\ jobs'[ret'.id].status \in {"completed", "failed"}
             ELSE ret'.err = "Job not active" /\ JobStoreUnchanged]_vars

\* One job was completed, one has failed, and completeJob on a third, still
\* available, has been refused.
C3_Witness ==
    /\ ret.op = "completeJob"
    /\ ret.err = "Job not active"
    /\ ret.id \in DOMAIN jobs
    /\ jobs[ret.id].status = "available"
    /\ jobStats.completedJobs = 1
    /\ jobStats.failedJobs = 1
    /\ Len(completedJobs) = 2

\* C13: a job that was never accepted becomes unavailable once its 24-hour
\* TTL has elapsed: acceptJob on a job whose expiresAt is in the past fails,
\* at any time after expiry.
C13_ExpiredJobRefused ==
    [][(/\ ret'.op = "acceptJob"
        /\ ret'.id \in DOMAIN jobs
        /\ jobs[ret'.id].status = "available"
        /\ jobs[ret'.id].expiresAt < now)
       => (ret'.err = "Job not available" /\ jobs' = jobs)]_vars

--------------------------------------------------------------------------
(* Claims about BlackMarketManager, under SpecBlackMarket *)

\* C4: a purchase of an active black-market listing that is intercepted
\* records a transaction with status 'intercepted' and leaves the listing
\* 'active', so that a later purchase of it is accepted; one that is not
\* intercepted records a 'completed' transaction and makes the listing
\* 'sold'.
C4_InterceptedStaysActive ==
    [][(/\ ret'.op = "purchaseBlackMarketItem"
        /\ ret'.id \in DOMAIN bmListings
        /\ bmListings[ret'.id].status = "active")
       => (/\ ret'.err = ""
           /\ Len(bmTransactions') = Len(bmTransactions) + 1
           /\ SubSeq(bmTransactions', 1, Len(bmTransactions)) = bmTransactions
           /\ LET t == bmTransactions'[Len(bmTransactions')]
              IN /\ t.listingId = ret'.id
                 /\ \/ /\ t.status = "intercepted"
                       /\ bmListings'[ret'.id].status = "active"
                    \/ /\ t.status = "completed"
                       /\ bmListings'[ret'.id].status = "sold")]_vars

\* A purchase of listing 1 was intercepted, and a later purchase of the same
\* listing was accepted and sold it.
C4_Witness ==
    /\ Len(bmTransactions) = 2
    /\ bmTransactions[1].listingId = 1
    /\ bmTransactions[1].status = "intercepted"
    /\ bmTransactions[2].listingId = 1
    /\ bmTransactions[2].status = "completed"
    /\ bmListings[1].status = "sold"

\* C14: a black-market listing expires after its 4-hour TTL: once its
\* expiresAt has passed it is no longer an active listing, and
\* purchaseBlackMarketItem on it fails.
C14_ExpiredListingRefused ==
    [][/\ \A l \in DOMAIN bmListings' :
             bmListings'[l].expiresAt < now'
             => bmListings'[l].status # "active"
       /\ (/\ ret'.op = "purchaseBlackMarketItem"
           /\ ret'.id \in DOMAIN bmListings
           /\ bmListings[ret'.id].expiresAt < now)
          => (/\ ret'.err = "Listing not available"
              /\ bmTransactions' = bmTransactions)]_vars

--------------------------------------------------------------------------
(* Claims about CargoManager, under SpecCargo *)

\* a manifest has been returned by generateCargoManifest
ManifestReturned == cargoPc = "idle" /\ ret.op = "generateCargoManifest"

\* C11: for every ship capacity and every risk tolerance, the manifest
\* returned by generateCargoManifest has totalVolume not greater than the
\* requested capacity.
C11_VolumeWithinCapacity ==
    ManifestReturned => manifest.totalVolume <= ret.id

\* C12: every line item of a manifest generated with riskTolerance 'low' is
\* 'legal', no line item of one generated with 'medium' is 'illegal'; only
\* 'high' can yield an illegal line item.
C12_ToleranceFiltersLegality ==
    \A i \in 1..Len(manifest.cargo) :
        /\ ret.key = "low" => manifest.cargo[i].legality = "legal"
        /\ ret.key = "medium" => manifest.cargo[i].legality # "illegal"
        /\ manifest.cargo[i].legality = "illegal" => ret.key = "high"

\* A manifest was returned that holds a legal and a restricted line item
\* under 'medium', or an illegal one under 'high'.
C12_Witness ==
    /\ ManifestReturned
    /\ \/ /\ ret.key = "medium"
          /\ \E i \in 1..Len(manifest.cargo) :
                manifest.cargo[i].legality = "restricted"
          /\ \E i \in 1..Len(manifest.cargo) :
                manifest.cargo[i].legality = "legal"
       \/ /\ ret.key = "high"
          /\ \E i \in 1..Len(manifest.cargo) :
                manifest.cargo[i].legality = "illegal"

--------------------------------------------------------------------------
(* Claims about SmugglingManager, under SpecSmuggling, FairSpecSmuggling   *)
(* and SpecSmugglingHistory                                                *)

\* the ids of the runs in the sequence s
RunIdsOf(s) == {s[i].id : i \in 1..Len(s)}

\* a step that is a call of completeSmugglingRun, by the timeout or directly
CompletionCalled ==
    ret'.op \in {"setTimeout completeSmugglingRun", "completeSmugglingRun"}

C15_OneOutcome ==
    /\ smugglingStats.totalRuns =
          smugglingStats.successfulRuns + smugglingStats.interceptedRuns
    /\ smugglingStats.totalRuns = Len(completionLog)
    /\ DOMAIN activeRuns \cap RunIdsOf(completionLog) = {}
    /\ \A i, j \in 1..Len(completionLog) :
          completionLog[i].id = completionLog[j].id => i = j
    /\ \A i \in 1..Len(completionLog) :
          completionLog[i].success # completionLog[i].intercepted

\* C15: each smuggling run gets exactly one terminal outcome:
\* completeSmugglingRun decides success or interception once, moves the run
\* from activeRuns to the completed history, and a second completion of the
\* same run id is a no-op; in every reachable state totalRuns =
\* successfulRuns + interceptedRuns and no run is both active and completed.
C15_OneTerminalOutcome ==
    /\ []C15_OneOutcome
    /\ [][CompletionCalled =>
            IF ret'.id \in DOMAIN activeRuns
            THEN /\ ret'.id \notin DOMAIN activeRuns'
                 /\ completionLog' # << >>
                 /\ completionLog'[Len(completionLog')].id = ret'.id
                 /\ completedRuns'[Len(completedRuns')].id = ret'.id
            ELSE UNCHANGED <<activeRuns, completedRuns, smugglingStats,
                             completionLog>>]_vars

\* completeSmugglingRun was called a second time for a run, with one run
\* completed with success, one intercepted and one still active.
C15_Witness ==
    /\ ret.op = "completeSmugglingRun"
    /\ ret.id \in RunIdsOf(completedRuns)
    /\ smugglingStats.successfulRuns = 1
    /\ smugglingStats.interceptedRuns = 1
    /\ DOMAIN activeRuns # {}

\* C16: every smuggling run that simulateSmugglingActivity places in
\* activeRuns is eventually completed: its completion callback fires and
\* removes it from activeRuns, timers being fairly scheduled.
C16_EveryRunCompletes ==
    \A r \in 1..MaxRuns :
        (r \in DOMAIN activeRuns)
        ~> (r \notin DOMAIN activeRuns /\ r \in RunIdsOf(completionLog))

\* Two runs are active together, their timeouts pending, after another run
\* was completed.
C16_Witness ==
    /\ Cardinality(DOMAIN activeRuns) = 2
    /\ DOMAIN activeRuns \subseteq runTimers
    /\ Len(completionLog) = 1

\* s is the end of t
IsSuffix(s, t) ==
    /\ Len(s) <= Len(t)
    /\ s = SubSeq(t, Len(t) - Len(s) + 1, Len(t))

\* C17: the completed-run history never holds more than 100 runs; a
\* completion that would make it 101 cuts it to the 50 most recently
\* completed runs, so the history is always a suffix, in completion order,
\* of the sequence of all completed runs: of n completed runs it holds all
\* while n <= 100, 50 at n = 101, and one more with each run until the next
\* cut.
C17_RollingHistory ==
    LET n == Len(completionLog)
    IN /\ Len(completedRuns) <= CompletedRunsLimit
       /\ IsSuffix(completedRuns, completionLog)
       /\ Len(completedRuns) =
             IF n <= CompletedRunsLimit THEN n
             ELSE CompletedRunsKeep
                  + ((n - CompletedRunsLimit - 1) % (CompletedRunsKeep + 1))

\* The history was cut at its 101st run and has grown by one run since.
C17_Witness ==
    /\ Len(completionLog) = CompletedRunsLimit + 2
    /\ Len(completedRuns) = CompletedRunsKeep + 1

--------------------------------------------------------------------------
(* Claims about UserAcquisitionManager, under SpecAcquisition *)

\* the metrics of campaign c after the step are those before it, but for
\* the counter named
OnlyCounterRaised(c, counter) ==
    LET m == campaigns[c].metrics
    IN campaigns'[c].metrics =
          CASE counter = "impressions" -> [m EXCEPT !.impressions = @ + 1]
            [] counter = "clicks" -> [m EXCEPT !.clicks = @ + 1]

\* C19: for an existing campaign, a 'conversion' event raises conversions by
\* exactly 1 and adds data.cost to the campaign cost, adding 0 when no cost
\* (or no data) is supplied, without raising an error; an 'impression' or
\* 'click' event raises only its own counter.
C19_EventsCounted ==
    [][\A c \in DOMAIN campaigns, d \in EventData :
          /\ trackAcquisitionEvent(c, "conversion", d)
             => /\ ret'.err = ""
                /\ campaigns'[c].metrics =
                      [campaigns[c].metrics EXCEPT
                          !.conversions = @ + 1,
                          !.cost = @ + CostOrZero(d)]
          /\ trackAcquisitionEvent(c, "impression", d)
             => (ret'.err = "" /\ OnlyCounterRaised(c, "impressions"))
          /\ trackAcquisitionEvent(c, "click", d)
             => (ret'.err = "" /\ OnlyCounterRaised(c, "clicks"))]_vars

\* the channels of the table no other channel of which has more conversions
TopChannels ==
    {c \in Channels :
        \A o \in Channels : TotalConversions(o) <= TotalConversions(c)}

\* C20: getAcquisitionAnalytics().bestPerformingChannel is the channel with
\* the greatest total conversions over its campaigns, and is undefined when
\* no campaign exists.
C20_BestChannelIsArgmax ==
    IF DOMAIN campaigns = {}
    THEN getAcquisitionAnalytics.bestPerformingChannel = "undefined"
    ELSE getAcquisitionAnalytics.bestPerformingChannel \in TopChannels


--------------------------------------------------------------------------
(* Claims on the RevenueManager's prediction *)

\* C21: predictRevenue returns the least-squares extrapolation at index n of
\* the historical series: the slope of the series is 5600, its intercept
\* 35800 and every call returns slope * 5 + intercept = 63800, not below the
\* last value of the series and not negative, whatever the streams hold
C21_PredictionIsExtrapolation ==
    [][ret'.op = "predictRevenue" =>
          /\ RatEquals(Slope(getHistoricalRevenue), 5600)
          /\ RatEquals(Intercept(getHistoricalRevenue), 35800)
          /\ RatEquals(ret'.id, 63800)
          /\ ret'.id.n >=
                getHistoricalRevenue[Len(getHistoricalRevenue)] * ret'.id.d
          /\ ret'.id.n >= 0
          /\ streams' = streams]_vars

\* a prediction was returned after revenue had been recorded, also for a
\* stream outside the table
C21_Witness ==
    /\ ret.op = "predictRevenue"
    /\ streams["marketplace"] = Num(MaxStreamTotal)
    /\ "gems" \in DOMAIN streams


--------------------------------------------------------------------------
(* Claims on the listings held in the marketplace store *)

\* C22: in every reachable state every listing held in the marketplace
\* store has a category that is a key of the category table, whatever data
\* createListing was called with
C22_ListingCategoryInTable ==
    \A id \in DOMAIN listings : listings[id].category \in Categories

\* the transactions recorded for listing id
TransactionsOf(id) ==
    LET Test(t) == t.listingId = id IN SelectSeq(transactions, Test)

\* C26: after any sequence of createListing and purchaseListing, every
\* listing's purchases counter is the number of recorded transactions that
\* carry its id and its revenue is the sum of their amounts (createListing
\* never replaces or resets a listing already in the store)
C26_CountersMatchTransactions ==
    \A id \in DOMAIN listings :
        /\ listings[id].purchases = Len(TransactionsOf(id))
        /\ listings[id].revenue = SumAmounts(TransactionsOf(id))


--------------------------------------------------------------------------
(* Claims on the routes and the 4-hourly update, under SpecPlatform *)

\* C23: the revenue aggregator receives a push for every marketplace
\* purchase and every subscription creation, from the routes as from the
\* 4-hourly update: in every reachable state streams.marketplace is the sum
\* of the amounts of the marketplace transactions and streams.subscriptions
\* the sum of the prices of the subscriptions created
C23_RevenuePushed ==
    /\ streams["marketplace"] = Num(SumAmounts(transactions))
    /\ streams["subscriptions"] = SumRevenue(DOMAIN subscriptions)

\* C27: a successful purchaseListing of the purchase route records the
\* marketplace transaction with status 'completed' and raises the listing's
\* purchases and revenue while its payment is only suspended, not settled;
\* no step removes or alters a recorded marketplace transaction; and the
\* step that settles a payment, as 'failed' or as 'completed', changes
\* neither the marketplace transactions nor any listing
C27_PurchaseSurvivesFailedPayment ==
    [][/\ Len(transactions') >= Len(transactions)
       /\ SubSeq(transactions', 1, Len(transactions)) = transactions
       /\ (ret'.op = "purchase route" /\ ret'.err = "") =>
             LET id == ret'.id
                 last == transactions'[Len(transactions')]
             IN /\ Len(transactions') = Len(transactions) + 1
                /\ last.listingId = id
                /\ last.status = "completed"
                /\ last.amount = listings[id].price
                /\ listings'[id].purchases = listings[id].purchases + 1
                /\ listings'[id].revenue = listings[id].revenue + last.amount
                /\ payments' = payments
                /\ Len(timers') = Len(timers) + 1
                /\ timers'[Len(timers')].amount = last.amount
       /\ ret'.op = "processPayment" =>
             /\ transactions' = transactions
             /\ listings' = listings]_vars

\* a payment of the purchase route has just settled as 'failed', and the
\* marketplace transaction and the counters of the listing it paid for are
\* in the store
C27_Witness ==
    /\ ret.op = "processPayment"
    /\ payments # <<>>
    /\ payments[Len(payments)].status = "failed"
    /\ \E i \in 1..Len(transactions) :
          /\ transactions[i].status = "completed"
          /\ transactions[i].amount = payments[Len(payments)].amount
          /\ transactions[i].listingId \in DOMAIN listings
          /\ listings[transactions[i].listingId].purchases >= 1
          /\ listings[transactions[i].listingId].revenue
                >= transactions[i].amount


--------------------------------------------------------------------------
(* Claims on the initialization, under SpecInit *)

\* C24: whether the lore provider is absent, fails or answers, no step of
\* the initialization of the smuggling, cargo and job generators raises an
\* error, and once it is done the cargo catalog contains every built-in
\* cargo type id, the job board has a non-empty template list and the
\* smuggling lore is set
C24_InitializationFallsBack ==
    /\ ret.op \in {"initializeLoreIntegration", "loadSmugglingData",
                    "loadCargoTypes", "loadJobTemplates"} => ret.err = ""
    /\ initPc = "done" =>
          /\ \A i \in 1..Len(FallbackCargoIds) :
                FallbackCargoIds[i] \in CatalogIds(cargoCatalog)
          /\ Len(jobTemplates) > 0
          /\ smugglingLore \in {"fallback", "lore"}

\* the names of the templates of a list
TemplateNames(templates) == {templates[i].name : i \in 1..Len(templates)}

--------------------------------------------------------------------------
(* Claims on the loop of generateCargoManifest, under FairSpecCargo *)

\* the number of cargo types of the catalog the filter admits
EligibleCount(riskTolerance) ==
    Cardinality({i \in 1..Len(loadFallbackCargoTypes) :
                    CargoEligible(loadFallbackCargoTypes[i], riskTolerance)})

\* a step of the while loop: the call is inside its loop before and after
LoopIteration == cargoPc = "loop" /\ cargoPc' = "loop"

\* C25: generateCargoManifest always terminates: every iteration of its loop
\* removes one cargo type, the drawn one, from the draw pool, so the line
\* items and the pool together never exceed the eligible cargo types, no
\* cargo type appears in more than one line item of a manifest, and every
\* call that entered the loop returns
C25_ManifestLoopTerminates ==
    /\ [][LoopIteration =>
             /\ Len(availableCargo') = Len(availableCargo) - 1
             /\ \A i \in 1..Len(availableCargo') :
                   \E j \in 1..Len(availableCargo) :
                       availableCargo'[i] = availableCargo[j]
             /\ \A i \in 1..Len(manifest'.cargo) :
                   \A j \in 1..Len(availableCargo') :
                       manifest'.cargo[i].type # availableCargo'[j]]_vars
    /\ [](cargoPc = "loop" =>
             Len(manifest.cargo) + Len(availableCargo)
                <= EligibleCount(ret.key))
    /\ [](\A i, j \in 1..Len(manifest.cargo) :
             manifest.cargo[i].type = manifest.cargo[j].type => i = j)
    /\ (cargoPc = "loop" ~> cargoPc = "idle")

\* a call has returned a manifest of three line items after its loop ran
\* over the whole pool of eligible cargo types
C25_Witness ==
    /\ ManifestReturned
    /\ Len(manifest.cargo) >= 3
    /\ availableCargo = << >>
    /\ remainingCapacity > 0


--------------------------------------------------------------------------
(* Claims on sold black-market listings, under SpecBlackMarket *)

\* the transactions of status 'completed' recorded for listing id
CompletedSales(id) ==
    {i \in 1..Len(bmTransactions) :
        /\ bmTransactions[i].listingId = id
        /\ bmTransactions[i].status = "completed"}

\* C28: every black-market listing has at most one transaction of status
\* 'completed'; a listing that is 'sold' stays 'sold' and keeps its
\* askingPrice in every step, the periodic price update included; and
\* purchaseBlackMarketItem on a sold listing fails, records no transaction
\* and leaves marketStats as it was
C28_SoldOnce ==
    /\ [](\A id \in DOMAIN bmListings : Cardinality(CompletedSales(id)) <= 1)
    /\ [][\A id \in DOMAIN bmListings :
             bmListings[id].status = "sold" =>
                /\ id \in DOMAIN bmListings'
                /\ bmListings'[id].status = "sold"
                /\ bmListings'[id].askingPrice = bmListings[id].askingPrice
                /\ (ret'.op = "purchaseBlackMarketItem" /\ ret'.id = id) =>
                      /\ ret'.err = "Listing not available"
                      /\ bmTransactions' = bmTransactions
                      /\ marketStats' = marketStats]_vars

\* listing 1 was sold, the prices were updated, and a purchase of listing 1
\* has just been refused
C28_Witness ==
    /\ 1 \in DOMAIN bmListings
    /\ bmListings[1].status = "sold"
    /\ Cardinality(CompletedSales(1)) = 1
    /\ priceUpdates >= 1
    /\ ret.op = "purchaseBlackMarketItem"
    /\ ret.id = 1
    /\ ret.err = "Listing not available"


--------------------------------------------------------------------------
(* Claims on the acceptance of a job, under SpecJobs *)

\* C29: a job is accepted at most once: of the acceptJob requests of any
\* players on one job, the first, made while the job is available,
\* succeeds and records the player, the time and the deadline; every later
\* one fails with 'Job not available'; and acceptedBy, acceptedAt and
\* deadline of a job that was accepted change in no step
C29_AcceptedOnce ==
    [][\A id \in DOMAIN jobs :
          /\ jobs[id].status # "available" =>
                /\ id \in DOMAIN jobs'
                /\ jobs'[id].acceptedBy = jobs[id].acceptedBy
                /\ jobs'[id].acceptedAt = jobs[id].acceptedAt
                /\ jobs'[id].deadline = jobs[id].deadline
          /\ (ret'.op = "acceptJob" /\ ret'.id = id) =>
                IF jobs[id].status = "available"
                THEN /\ ret'.err = ""
                     /\ jobs'[id].status = "active"
                     /\ jobs'[id].acceptedAt = now
                     /\ jobs'[id].deadline = now + jobs[id].duration
                     /\ \A p \in Players :
                           acceptJob(id, p) => jobs'[id].acceptedBy = p
                ELSE ret'.err = "Job not available"]_vars

\* job 1 was accepted by p1 and job 2 by p2, and a later acceptJob on job 1
\* has just been refused
C29_Witness ==
    /\ {1, 2} \subseteq DOMAIN jobs
    /\ jobs[1].acceptedBy = "p1"
    /\ jobs[2].acceptedBy = "p2"
    /\ jobs[1].acceptedAt < now
    /\ ret.op = "acceptJob"
    /\ ret.id = 1
    /\ ret.err = "Job not available"

==========================================================================
